---- MODULE Spec2Model ----
(***************************************************************************)
(* Model of ModelBacktester (src/app/model_backtester.py): signal          *)
(* generation, the per-symbol backtest pipeline, portfolio weighting and   *)
(* the portfolio rebalancing loop.                                         *)
(*                                                                         *)
(* Numbers.  Floats are modelled in fixed point: an integer v stands for   *)
(* v / Scale.  Divisions and square roots round towards minus infinity.    *)
(* NaN and +infinity are the two sentinels NaN and PosInf; every operator  *)
(* that can meet them treats them as IEEE arithmetic does (a comparison    *)
(* with NaN is false, NaN propagates through arithmetic).                  *)
(***************************************************************************)
EXTENDS Integers, Sequences, FiniteSets, TLC

(***************************************************************************)
(* The backtester object and the call in progress                          *)
(***************************************************************************)
VARIABLES
    model_type,           \* class name of self.model
    rebalance_frequency,  \* self.rebalance_frequency
    position_history,     \* self.position_history
    pc,                   \* "call": arguments chosen, "idle", "done": call returned
    args,                 \* the arguments of the call
    last                  \* what the call returned or raised

vars == <<model_type, rebalance_frequency, position_history, pc, args, last>>

(***************************************************************************)
(* Fixed-point arithmetic                                                  *)
(***************************************************************************)
Scale == 1000
NaN == -99999999
PosInf == 99999999
NegInf == -99999998

IsNaN(x) == x = NaN
Finite(x) == x # NaN /\ x # PosInf

Abs(x) == IF x < 0 THEN -x ELSE x
Min(a, b) == IF a < b THEN a ELSE b
Max(a, b) == IF a > b THEN a ELSE b
Sign(x) == IF x > 0 THEN 1 ELSE IF x < 0 THEN -1 ELSE 0
Clip(x, lo, hi) == IF x = NaN THEN NaN ELSE Max(lo, Min(hi, x))
Mul(a, b) == IF a = NaN \/ b = NaN THEN NaN ELSE (a * b) \div Scale
Add(a, b) == IF a = NaN \/ b = NaN THEN NaN ELSE a + b
Sub(a, b) == IF a = NaN \/ b = NaN THEN NaN ELSE a - b
\* comparisons in which a NaN operand makes the result false
Lt(a, b) == a # NaN /\ b # NaN /\ a < b
Gt(a, b) == a # NaN /\ b # NaN /\ a > b
Bool(b) == IF b THEN Scale ELSE 0

RECURSIVE SumOver(_, _)
SumOver(f, I) ==
    IF I = {} THEN 0
    ELSE LET i == CHOOSE j \in I : TRUE IN f[i] + SumOver(f, I \ {i})

RECURSIVE IsqrtFrom(_, _)
IsqrtFrom(v, r) ==
    \* Newton iteration from an upper estimate r; result floor(sqrt(v))
    LET q == (r + v \div r) \div 2 IN IF q >= r THEN r ELSE IsqrtFrom(v, q)
Isqrt(v) == IF v <= 0 THEN 0 ELSE IsqrtFrom(v, v)

\* indices of the rolling window ending at t
Window(t, w) == Max(1, t - w + 1) .. t
\* pandas rolling(w, min_periods).mean(): NaN entries are skipped
RollingMean(xs, w, minp) ==
    [t \in 1..Len(xs) |->
        LET I == {i \in Window(t, w) : xs[i] # NaN}
        IN IF Cardinality(I) < minp \/ I = {} THEN NaN
           ELSE SumOver(xs, I) \div Cardinality(I)]
\* sample standard deviation (ddof 1) of the entries indexed by I
StdOf(xs, I, ddof) ==
    LET c == Cardinality(I)
        sq == [i \in I |-> xs[i] * xs[i]]
        s1 == SumOver(xs, I)
    IN IF c - ddof <= 0 THEN NaN
       ELSE Isqrt((c * SumOver(sq, I) - s1 * s1) \div (c * (c - ddof)))
\* pandas rolling(w, min_periods).std()
RollingStd(xs, w, minp) ==
    [t \in 1..Len(xs) |->
        LET I == Window(t, w)
        IN IF Cardinality(I) < minp THEN NaN ELSE StdOf(xs, I, 1)]
\* Series.diff().fillna(0)
DiffFill0(xs) == [t \in 1..Len(xs) |-> IF t = 1 THEN 0 ELSE xs[t] - xs[t - 1]]

(***************************************************************************)
(* generate_signals (lines 101-946)                                        *)
(***************************************************************************)
Regimes == {"bullish", "bearish", "sideways"}

regime_params ==
    [bullish  |-> [long_threshold |-> 700, short_threshold |-> 850,
                   min_position |-> 50, max_position |-> 150,
                   trend_threshold |-> 50, vol_threshold |-> 1200,
                   quality_threshold |-> 700, momentum_threshold |-> 600],
     bearish  |-> [long_threshold |-> 850, short_threshold |-> 700,
                   min_position |-> 40, max_position |-> 120,
                   trend_threshold |-> 60, vol_threshold |-> 1150,
                   quality_threshold |-> 750, momentum_threshold |-> 650],
     sideways |-> [long_threshold |-> 800, short_threshold |-> 800,
                   min_position |-> 30, max_position |-> 80,
                   trend_threshold |-> 70, vol_threshold |-> 1100,
                   quality_threshold |-> 800, momentum_threshold |-> 700]]

\* regime_params.get(market_condition, regime_params['sideways'])
ParamsFor(mc) == IF mc \in Regimes THEN regime_params[mc] ELSE regime_params["sideways"]

max_position_size == 200

\* rolling_std / rolling_std.rolling(50, min_periods=1).mean()
RatioToRollingMean(rolling_std) ==
    [t \in DOMAIN rolling_std |->
        LET I == {i \in Window(t, 50) : rolling_std[i] # NaN}
            total == SumOver(rolling_std, I)
        IN IF rolling_std[t] = NaN \/ I = {} \/ total = 0
           THEN NaN        \* NaN / x, and 0 / 0 when every std so far is 0
           ELSE (rolling_std[t] * Cardinality(I) * Scale) \div total]

\* vol_ratio (lines 153-158)
VolRatio(p) == RatioToRollingMean(RollingStd(p, 20, 1))

\* sign(diff) == sign(diff.shift(1)); the shifted value at the first row is NaN
SameSignAsPrevious(trend_diff) ==
    [t \in DOMAIN trend_diff |->
        IF t > 1 /\ Sign(trend_diff[t]) = Sign(trend_diff[t - 1]) THEN Scale ELSE 0]

\* trend_persistence of lines 179-184
PersistenceOf(trend_short) ==
    RollingMean(SameSignAsPrevious(DiffFill0(trend_short)), 5, 1)

\* position_scale (lines 186-234) from the rolling means and the persistence
PositionScaleFrom(mc, vol_ratio, trend_short, trend_medium, trend_long, trend_persistence) ==
    LET params == ParamsFor(mc)
        qbar == IF mc = "bullish" THEN 600 ELSE IF mc = "bearish" THEN 700 ELSE 800
        hi == IF mc = "bullish" THEN 800 ELSE IF mc = "bearish" THEN 700 ELSE 600
        lo == IF mc = "bullish" THEN 500 ELSE IF mc = "bearish" THEN 400 ELSE 300
    IN [t \in DOMAIN vol_ratio |->
          LET vol_scale == Clip(Sub(1200, Sub(vol_ratio[t], 1000)), 300, 1000)
              momentum_strength == trend_short[t] > trend_medium[t]
                                   /\ trend_medium[t] > trend_long[t]
                                   /\ Abs(trend_medium[t] - 500) > params.trend_threshold
              base_scale == IF Lt(vol_ratio[t], params.vol_threshold)
                            THEN vol_scale ELSE Mul(vol_scale, 300)
              trend_quality == IF trend_persistence[t] > 600
                               THEN Clip((400 * Abs(trend_short[t] - 500)
                                          + 300 * Abs(trend_medium[t] - 500)
                                          + 300 * trend_persistence[t]) \div Scale,
                                         0, Scale)
                               ELSE 0
          IN Mul(base_scale, IF momentum_strength /\ trend_quality > qbar
                             THEN hi ELSE lo)]

\* position_scale (lines 171-234), from the 5/10/20 rolling means
PositionScaleOver(mc, vol_ratio, trend_short, trend_medium, trend_long) ==
    PositionScaleFrom(mc, vol_ratio, trend_short, trend_medium, trend_long,
                      PersistenceOf(trend_short))

PositionScale(p, mc, vol_ratio) ==
    PositionScaleOver(mc, vol_ratio, RollingMean(p, 5, 1), RollingMean(p, 10, 1),
                      RollingMean(p, 20, 1))

\* fillna(trend.mean()) if not trend.isna().all() else fillna(0.5)
FillWithMean(trend) ==
    LET I == {i \in DOMAIN trend : trend[i] # NaN}
    IN [t \in DOMAIN trend |->
          IF trend[t] # NaN THEN trend[t]
          ELSE IF I = {} THEN 500 ELSE SumOver(trend, I) \div Cardinality(I)]

\* calculate_trend (lines 241-248): rolling mean, NaN filled with the mean
\* of the defined values, or 0.5 when none is defined
calculate_trend(data, window) ==
    FillWithMean(RollingMean(data, window, Max(2, window \div 2)))

\* the multi-timeframe quantities of lines 257-303
TrendsFrom(mc, ts, tm, tl, tsu, ds, dm) ==
    LET threshold == ParamsFor(mc).trend_threshold
    IN [trend_short |-> ts, trend_medium |-> tm, trend_long |-> tl, trend_super |-> tsu,
        trend_diff_short |-> ds, trend_diff_medium |-> dm,
        trend_aligned |-> [t \in DOMAIN ts |->
            Sign(ts[t] - 500) = Sign(tm[t] - 500)
            /\ Sign(tm[t] - 500) = Sign(tl[t] - 500)
            /\ Abs(tm[t] - 500) > threshold],
        trend_strength |-> [t \in DOMAIN ts |-> Abs(tm[t] - 500)],
        trend_persistence |-> [t \in DOMAIN ts |->
            Sign(ds[t]) = Sign(dm[t]) /\ Abs(dm[t]) > threshold],
        momentum_confirmed |-> [t \in DOMAIN ts |->
            Abs(ts[t] - tm[t]) > threshold
            /\ Abs(tm[t] - tl[t]) > (threshold * 800) \div Scale
            /\ Abs(tl[t] - tsu[t]) > (threshold * 600) \div Scale]]

TrendsOver(mc, ts, tm, tl, tsu) ==
    TrendsFrom(mc, ts, tm, tl, tsu, DiffFill0(ts), DiffFill0(tm))

\* the four trends of lines 250-255 and what lines 257-303 derive from them
Trends(p, mc) ==
    TrendsOver(mc, calculate_trend(p, 3), calculate_trend(p, 5),
               calculate_trend(p, 8), calculate_trend(p, 13))

\* long_signals (lines 305-324)
LongSignals(p, mc, vol_ratio, T) ==
    LET params == ParamsFor(mc) IN
    [t \in 1..Len(p) |->
        p[t] > params.long_threshold
        /\ Lt(vol_ratio[t], params.vol_threshold)
        /\ T.trend_aligned[t] /\ T.trend_persistence[t] /\ T.momentum_confirmed[t]
        /\ T.trend_strength[t] > (params.trend_threshold * 1200) \div Scale
        /\ T.trend_short[t] > T.trend_medium[t]
        /\ T.trend_medium[t] > T.trend_long[t]
        /\ T.trend_long[t] > T.trend_super[t]]

\* short_signals (lines 326-345)
ShortSignals(p, mc, vol_ratio, T) ==
    LET params == ParamsFor(mc) IN
    [t \in 1..Len(p) |->
        p[t] < Scale - params.short_threshold
        /\ Lt(vol_ratio[t], (params.vol_threshold * 900) \div Scale)
        /\ T.trend_aligned[t] /\ T.trend_persistence[t] /\ T.momentum_confirmed[t]
        /\ T.trend_strength[t] > (params.trend_threshold * 1500) \div Scale
        /\ T.trend_short[t] < T.trend_medium[t]
        /\ T.trend_medium[t] < T.trend_long[t]
        /\ T.trend_long[t] < T.trend_super[t]]

\* the five quality factors and signal_quality (lines 347-435)
SignalQuality(p, mc, vol_ratio, T, long_signals, short_signals) ==
    LET params == ParamsFor(mc)
        n == Len(p)
        trend_quality == [t \in 1..n |->
            Clip((300 * Abs(T.trend_short[t] - 500) + 300 * Abs(T.trend_medium[t] - 500)
                  + 200 * Abs(T.trend_long[t] - 500) + 100 * Abs(T.trend_super[t] - 500)
                  + 100 * Bool(Sign(T.trend_diff_short[t]) = Sign(T.trend_diff_medium[t])))
                 \div Scale, 0, Scale)]
        momentum_quality == [t \in 1..n |->
            Clip((400 * Abs(T.trend_diff_short[t]) + 300 * Abs(T.trend_diff_medium[t])
                  + 200 * Bool(T.trend_persistence[t])
                  + 100 * Bool(Abs(T.trend_medium[t] - T.trend_long[t]) > params.trend_threshold))
                 \div Scale, 0, Scale)]
        volatility_quality == [t \in 1..n |->
            IF vol_ratio[t] = NaN THEN NaN
            ELSE Clip((600 * (1500 - vol_ratio[t])
                       + 400 * (Scale - Abs(T.trend_diff_short[t]))) \div Scale, 0, Scale)]
        signal_persistence == [t \in 1..n |->
            Clip((500 * Bool(T.trend_strength[t] > 700)
                  + 300 * Bool(Abs(T.trend_diff_medium[t]) < 15)
                  + 200 * Bool(Lt(vol_ratio[t], params.vol_threshold))) \div Scale, 0, Scale)]
        signal_consistency == [t \in 1..n |->
            Clip((400 * Bool(Abs(T.trend_short[t] - T.trend_medium[t]) < 100)
                  + 300 * Bool(Abs(T.trend_medium[t] - T.trend_long[t]) < 150)
                  + 300 * Bool(Abs(T.trend_long[t] - T.trend_super[t]) < 200)) \div Scale,
                 0, Scale)]
        valid_signals == [t \in 1..n |->
            trend_quality[t] > params.quality_threshold
            /\ momentum_quality[t] > params.momentum_threshold
            /\ Gt(volatility_quality[t], 700)
            /\ signal_persistence[t] > 800
            /\ signal_consistency[t] > 700]
        vol_quality == [t \in 1..n |-> Clip(Sub(2000, vol_ratio[t]), 0, Scale)]
    IN [t \in 1..n |->
          IF long_signals[t] \/ short_signals[t]
          THEN Clip(Add(400 * trend_quality[t] + 400 * momentum_quality[t],
                        Mul(200 * Scale, vol_quality[t])) \div Scale, 0, Scale)
          ELSE IF valid_signals[t]
          THEN Clip((250 * trend_quality[t] + 250 * momentum_quality[t]
                     + 200 * volatility_quality[t] + 150 * signal_persistence[t]
                     + 150 * signal_consistency[t]) \div Scale, 0, Scale)
          ELSE 0]

\* number of TRUE entries of a boolean series
CountTrue(b) == Cardinality({t \in DOMAIN b : b[t]})

\* `long_confidence * position_scale' (lines 454-460, 475-480): a Series with
\* one row per selected timestep times an array with one entry per timestep;
\* the product exists only when the two have the same length.
SizingBroadcasts(k, n) == k = n

\* the value the sizing step assigns at a selected timestep t
SizedSignal(p, mc, vol_ratio, position_scale, signal_quality, t, isLong) ==
    LET params == ParamsFor(mc)
        prediction_confidence ==
            IF isLong
            THEN ((p[t] - params.long_threshold) * Scale) \div (Scale - params.long_threshold)
            ELSE ((params.short_threshold - p[t]) * Scale) \div params.short_threshold
        confidence == Clip((400 * prediction_confidence + 400 * signal_quality[t]
                            + 200 * (Scale - vol_ratio[t])) \div Scale,
                           params.min_position, Scale)
        size == Mul(Mul(Mul(confidence, position_scale[t]), params.max_position),
                    Scale - (vol_ratio[t] * 200) \div Scale)
    IN IF isLong THEN size ELSE -size

\* the scalar vol_scale of lines 486-556
VolScaleTable(mc, vol_ratio_value, quality_score) ==
    LET v == vol_ratio_value
        q == quality_score
        base ==
            IF mc = "bullish"
            THEN IF Gt(v, 1300) THEN 300 ELSE IF Gt(v, 1100) THEN 500
                 ELSE IF Gt(v, 900) THEN 800 ELSE 1000
            ELSE IF mc = "bearish"
            THEN IF Gt(v, 1200) THEN 200 ELSE IF Gt(v, 1000) THEN 400
                 ELSE IF Gt(v, 800) THEN 600 ELSE 800
            ELSE IF Gt(v, 1100) THEN 100 ELSE IF Gt(v, 900) THEN 300
                 ELSE IF Gt(v, 800) THEN 500 ELSE 600
        qmul ==
            IF mc = "bullish"
            THEN IF q < 400 THEN 300 ELSE IF q < 600 THEN 600
                 ELSE IF q < 800 THEN 900 ELSE IF q > 900 THEN 1200 ELSE 1000
            ELSE IF mc = "bearish"
            THEN IF q < 500 THEN 200 ELSE IF q < 700 THEN 400
                 ELSE IF q < 850 THEN 600 ELSE IF q > 950 THEN 800 ELSE 1000
            ELSE IF q < 600 THEN 100 ELSE IF q < 800 THEN 300
                 ELSE IF q < 900 THEN 500 ELSE IF q > 950 THEN 700 ELSE 1000
        cmul ==
            IF mc = "sideways" THEN (IF q > 800 THEN 900 ELSE 700)
            ELSE IF mc = "bearish" THEN (IF q > 800 THEN 800 ELSE 600)
            ELSE IF mc = "bullish" /\ q > 800 THEN 1200 ELSE 1000
    IN Mul(Mul(base, qmul), cmul)

\* np.diff(predictions_array, n=5, prepend=np.zeros(5)): the fifth-order
\* difference of the series with five zeros in front
PriceMomentum(p) ==
    LET q(i) == IF i >= 1 THEN p[i] ELSE 0
    IN [t \in 1..Len(p) |->
          q(t) - 5 * q(t - 1) + 10 * q(t - 2) - 10 * q(t - 3) + 5 * q(t - 4) - q(t - 5)]

\* np.abs(price_momentum) / sd, then nan_to_num (nan -> 0.5, +inf -> 1.0)
MomentumQualityFrom(pm, sd) ==
    [t \in DOMAIN pm |->
        IF sd = 0 THEN (IF pm[t] = 0 THEN 500 ELSE Scale)
        ELSE (Abs(pm[t]) * Scale) \div sd]

\* np.abs(price_momentum) / np.std(price_momentum), then nan_to_num; the
\* deviation is taken in units of 10 / Scale
MomentumQuality(pm) ==
    MomentumQualityFrom(pm, 10 * StdOf([t \in DOMAIN pm |-> pm[t] \div 10], DOMAIN pm, 0))

\* rolling(window=3).mean().fillna(0)
RollingMean3Fill0(same) ==
    [t \in DOMAIN same |->
        IF t < 3 THEN 0 ELSE (same[t - 2] + same[t - 1] + same[t]) \div 3]

\* sign(pm) == sign(np.roll(pm, 1)), rolling(3).mean().fillna(0)
MomentumPersistence(pm) ==
    RollingMean3Fill0([t \in DOMAIN pm |->
        Bool(Sign(pm[t]) = Sign(IF t = 1 THEN pm[Len(pm)] ELSE pm[t - 1]))])

\* thresholds of the momentum filter (lines 748-763)
VetoThresholds(mc) ==
    IF mc = "bullish"
    THEN [mom_threshold |-> 650, quality_threshold |-> 600,
          persistence_threshold |-> 550, vol_threshold |-> 1200]
    ELSE IF mc = "bearish"
    THEN [mom_threshold |-> 750, quality_threshold |-> 700,
          persistence_threshold |-> 650, vol_threshold |-> 1000]
    ELSE [mom_threshold |-> 700, quality_threshold |-> 650,
          persistence_threshold |-> 600, vol_threshold |-> 1100]

\* momentum_mask (lines 810-893) at timestep t
MomentumMask(mc, signals, pm, mom_qual, sig_qual, mom_pers, vol_ratio_np, t) ==
    LET th == VetoThresholds(mc)
    IN \/ Abs(pm[t]) < 1                                         \* weak_momentum
       \/ signals[t] > 0 /\ pm[t] < -2 /\ mom_qual[t] > th.mom_threshold
       \/ signals[t] < 0 /\ pm[t] > 2 /\ mom_qual[t] > th.mom_threshold
       \/ sig_qual[t] < th.quality_threshold                     \* low_quality
       \/ mom_pers[t] < th.persistence_threshold                 \* low_persistence
       \/ vol_ratio_np > th.vol_threshold /\ sig_qual[t] < 800   \* high_vol_low_quality

Zeros(n) == [t \in 1..n |-> 0]

Returned(series) == [raised |-> FALSE, error |-> "none", signals |-> series]
Raised(kind) == [raised |-> TRUE, error |-> kind, signals |-> <<>>]

\* an error in the sizing step (lines 437-480), which no handler encloses
SizingError == Raised("ValueError")
\* float(vol_ratio.iloc[-1]) on an empty series (line 483), outside any handler
EmptySeriesError == Raised("IndexError")

\* the sizing step (lines 437-480) where it applies: short entries are
\* assigned after long ones
Sized(p, mc, vol_ratio, position_scale, signal_quality, long_signals, short_signals) ==
    [t \in DOMAIN p |->
        IF short_signals[t]
        THEN SizedSignal(p, mc, vol_ratio, position_scale, signal_quality, t, FALSE)
        ELSE IF long_signals[t]
        THEN SizedSignal(p, mc, vol_ratio, position_scale, signal_quality, t, TRUE)
        ELSE 0]

\* signals * vol_scale, clipped to the position limit (lines 558-562)
ScaledAndClipped(sized, vol_scale) ==
    [t \in DOMAIN sized |->
        Clip(Mul(sized[t], vol_scale), -max_position_size, max_position_size)]

\* signals_array[momentum_mask] = 1 in place of 0
ApplyMaskSetsOne(mc, clipped, pm, mom_qual, signal_quality, mom_pers, vol_ratio_np) ==
    [t \in DOMAIN clipped |->
        IF MomentumMask(mc, clipped, pm, mom_qual, signal_quality, mom_pers,
                        vol_ratio_np, t)
        THEN 1 ELSE clipped[t]]

\* variant: a mask that lets entries of low momentum persistence through
ApplyMaskIgnoringPersistence(mc, clipped, pm, mom_qual, signal_quality, mom_pers, vol_ratio_np) ==
    [t \in DOMAIN clipped |->
        IF MomentumMask(mc, clipped, pm, mom_qual, signal_quality,
                        [k \in DOMAIN mom_pers |-> Scale], vol_ratio_np, t)
        THEN 0 ELSE clipped[t]]

\* signals_array[momentum_mask] = 0 (line 896)
ApplyMask(mc, clipped, pm, mom_qual, signal_quality, mom_pers, vol_ratio_np) ==
    [t \in DOMAIN clipped |->
        IF MomentumMask(mc, clipped, pm, mom_qual, signal_quality, mom_pers,
                        vol_ratio_np, t)
        THEN 0 ELSE clipped[t]]

\* the momentum filter (lines 564-896)
MomentumFilter(mc, clipped, pm, signal_quality, vol_ratio_np) ==
    ApplyMask(mc, clipped, pm, MomentumQuality(pm), signal_quality,
              MomentumPersistence(pm), vol_ratio_np)

\* lines 482-942 for a non-empty input
ScaleAndFilter(p, mc, sized, signal_quality, vol_ratio_value) ==
    MomentumFilter(mc,
        ScaledAndClipped(sized,
            VolScaleTable(mc, vol_ratio_value,
                          SumOver(signal_quality, DOMAIN p) \div Len(p))),
        PriceMomentum(p), signal_quality,
        IF vol_ratio_value = NaN THEN Scale ELSE vol_ratio_value)

\* lines 437-942
SizeAndFilter(p, mc, vol_ratio, position_scale, long_signals, short_signals, signal_quality) ==
    IF CountTrue(long_signals) > 0
       /\ ~SizingBroadcasts(CountTrue(long_signals), Len(p)) THEN SizingError
    ELSE IF CountTrue(short_signals) > 0
       /\ ~SizingBroadcasts(CountTrue(short_signals), Len(p)) THEN SizingError
    ELSE IF Len(p) = 0 THEN EmptySeriesError
    ELSE Returned(ScaleAndFilter(p, mc,
                      Sized(p, mc, vol_ratio, position_scale, signal_quality,
                            long_signals, short_signals),
                      signal_quality, vol_ratio[Len(p)]))

\* lines 347-942
QualifyAndSize(p, mc, vol_ratio, T, long_signals, short_signals) ==
    SizeAndFilter(p, mc, vol_ratio, PositionScale(p, mc, vol_ratio),
                  long_signals, short_signals,
                  SignalQuality(p, mc, vol_ratio, T, long_signals, short_signals))

\* lines 305-942
EnterAndSize(p, mc, vol_ratio, T) ==
    QualifyAndSize(p, mc, vol_ratio, T, LongSignals(p, mc, vol_ratio, T),
                   ShortSignals(p, mc, vol_ratio, T))

generate_signals(predictions, market_condition) ==
    EnterAndSize(predictions, market_condition, VolRatio(predictions),
                 Trends(predictions, market_condition))

(***************************************************************************)
(* backtest: regime detection (lines 971-1031)                             *)
(* trend, volatility and momentum are in units of 1/10000, rsi_avg in      *)
(* units of 1/100.                                                         *)
(***************************************************************************)
\* np.nan_to_num(x, nan=default) followed by np.clip(x, lo, hi): NaN becomes
\* the default, an infinity becomes the largest finite float and is clipped
CleanStat(x, default, lo, hi) ==
    IF x = NaN THEN Max(lo, Min(hi, default))
    ELSE IF x = PosInf THEN hi
    ELSE IF x = NegInf THEN lo
    ELSE Max(lo, Min(hi, x))

\* variant: the fallback scoring calls a history with no bearish condition bullish
DetectRegimeBullishFallback(raw_trend, raw_volatility, raw_momentum, raw_rsi_avg) ==
    LET trend == CleanStat(raw_trend, 0, -1000, 1000)
        volatility == CleanStat(raw_volatility, 2000, 500, 5000)
        momentum == CleanStat(raw_momentum, 0, -500, 500)
        rsi_avg == CleanStat(raw_rsi_avg, 5000, 0, 10000)
        \* ten times trend_quality, in units of 1/10000
        trend_quality10 == 4 * (10000 - 10 * Abs(trend))
                           + 3 * (10000 - 2 * volatility)
                           + 3 * (10000 - 20 * Abs(momentum))
        \* 5000 times momentum_quality
        momentum_quality5000 == 5000 - Abs(rsi_avg - 5000)
        bearish_score == (IF trend < 0 THEN 1 ELSE 0)
                         + (IF volatility > 1800 THEN 1 ELSE 0)
                         + (IF momentum < 0 THEN 1 ELSE 0)
                         + (IF rsi_avg < 4500 THEN 1 ELSE 0)
    IN IF trend > 20 /\ volatility < 2500 /\ momentum > 3
          /\ 4500 < rsi_avg /\ rsi_avg < 6500
          /\ trend_quality10 > 50000 /\ momentum_quality5000 > 2000
       THEN "bullish"
       ELSE IF trend < -20 /\ volatility > 1500
               /\ (momentum < -3 \/ rsi_avg < 4000 \/ trend_quality10 < 60000)
       THEN "bearish"
       ELSE IF Abs(trend) < 20 /\ volatility < 2000
       THEN "sideways"
       ELSE IF bearish_score >= 3 THEN "bearish"
       ELSE IF bearish_score = 0 THEN "bullish" ELSE "sideways"

DetectRegime(raw_trend, raw_volatility, raw_momentum, raw_rsi_avg) ==
    LET trend == CleanStat(raw_trend, 0, -1000, 1000)
        volatility == CleanStat(raw_volatility, 2000, 500, 5000)
        momentum == CleanStat(raw_momentum, 0, -500, 500)
        rsi_avg == CleanStat(raw_rsi_avg, 5000, 0, 10000)
        \* ten times trend_quality, in units of 1/10000
        trend_quality10 == 4 * (10000 - 10 * Abs(trend))
                           + 3 * (10000 - 2 * volatility)
                           + 3 * (10000 - 20 * Abs(momentum))
        \* 5000 times momentum_quality
        momentum_quality5000 == 5000 - Abs(rsi_avg - 5000)
        bearish_score == (IF trend < 0 THEN 1 ELSE 0)
                         + (IF volatility > 1800 THEN 1 ELSE 0)
                         + (IF momentum < 0 THEN 1 ELSE 0)
                         + (IF rsi_avg < 4500 THEN 1 ELSE 0)
    IN IF trend > 20 /\ volatility < 2500 /\ momentum > 3
          /\ 4500 < rsi_avg /\ rsi_avg < 6500
          /\ trend_quality10 > 50000 /\ momentum_quality5000 > 2000
       THEN "bullish"
       ELSE IF trend < -20 /\ volatility > 1500
               /\ (momentum < -3 \/ rsi_avg < 4000 \/ trend_quality10 < 60000)
       THEN "bearish"
       ELSE IF Abs(trend) < 20 /\ volatility < 2000
       THEN "sideways"
       ELSE IF bearish_score >= 3 THEN "bearish" ELSE "sideways"

(***************************************************************************)
(* backtest (lines 948-1265)                                               *)
(*                                                                         *)
(* The data handler, the model and the simulator are collaborators; what   *)
(* each of them does in one call is an input of the call (env):            *)
(*   length, index_kind, start  the price history: number of rows, whether *)
(*                        its index holds dates or is the default integer  *)
(*                        range, and the date of its first row             *)
(*   indicators           "ok" or "raise"                                  *)
(*   stats                the four raw statistics, or kind "raise"         *)
(*   features, retry      [kind |-> "raise" | "none" | "rows", rows |-> n] *)
(*   predict              "raise", "none", "empty" or a prediction pattern *)
(*   simulator            "raise" or the pattern of simulated returns      *)
(***************************************************************************)
SequentialModels == {"StockPredictionRNN", "StockPredictionLSTM"}
ValidModels == {"MockStockPredictionFNN", "StockPredictionFNN"} \cup SequentialModels

prediction_window == 5
base_lookback == 10

\* A date is DateBase plus a calendar day number; day 0 is a Monday, days
\* 5 and 6 of each week are the weekend, and no date equals a label of a
\* default integer index.  Row i of a dated price history is the
\* (start + i)-th business day.
DateBase == 1001
Weekday(d) == (d - DateBase) % 7
CalendarDay(k) == 7 * (k \div 5) + (k % 5)

\* label of row i (0-based) of the price history
IndexLabel(env, i) ==
    IF env.index_kind = "date" THEN DateBase + CalendarDay(env.start + i) ELSE i

\* test_data.index[a:b] as a sequence of labels (Python slice semantics)
IndexSlice(env, a, b) ==
    LET L == env.length
        lo == IF a < 0 THEN Max(0, a + L) ELSE Min(a, L)
        hi == IF b < 0 THEN Max(0, b + L) ELSE Min(b, L)
    IN [k \in 1..Max(0, hi - lo) |-> IndexLabel(env, lo + k - 1)]

\* the predictions a model returns for `rows' samples, one per sample
SpikePrefix == <<0, 0, 1000, 0, 0, 500, 1000, 1000, 1000>>
PredictionsOf(pattern, rows) ==
    IF pattern = "spike"
    THEN [t \in 1..rows |-> IF t <= Len(SpikePrefix) THEN SpikePrefix[t] ELSE 500]
    ELSE [t \in 1..rows |-> 500]

\* the return the simulator reports for row k of the price slice
SimulatedReturn(pattern, k) ==
    IF pattern = "gain" THEN 10
    ELSE IF pattern = "loss" THEN -10
    ELSE IF pattern = "mixed" THEN (IF k % 2 = 0 THEN 20 ELSE -10)
    ELSE 0

EmptyTable == [index |-> <<>>, returns |-> <<>>]
EmptySeries == [index |-> <<>>, values |-> <<>>]

\* pd.Series(data) of a returned array: default integer index 0..n-1
RangeSeries(values) == [index |-> [k \in 1..Len(values) |-> k - 1], values |-> values]

\* pd.Series(index=index, data=data).  An array is taken by position; a
\* Series is re-indexed by label, a label it lacks giving NaN.
PdSeries(index, data, is_series) ==
    IF is_series
    THEN [index |-> index,
          values |-> [k \in 1..Len(index) |->
                        IF \E j \in 1..Len(data.index) : data.index[j] = index[k]
                        THEN data.values[CHOOSE j \in 1..Len(data.index) :
                                             data.index[j] = index[k]]
                        ELSE NaN]]
    ELSE [index |-> index, values |-> data.values]

\* the empty result of every failure path, after logging.error
EmptyResult(symbol, trace) ==
    [symbol |-> symbol, results |-> EmptyTable, metrics |-> "empty",
     predictions |-> <<>>, signals |-> EmptySeries, market_condition |-> "absent",
     raised |-> FALSE, logged_error |-> TRUE, trace |-> trace]

\* variant: no outermost handler, the exception reaches the caller
OuterExceptPropagates(symbol, trace) ==
    [EmptyResult(symbol, trace) EXCEPT !.raised = TRUE, !.logged_error = FALSE]
\* the outermost handler (lines 1257-1265)
OuterExcept(symbol, trace) == EmptyResult(symbol, trace)
\* the handler around prediction and signal generation (lines 1194-1203)
PredictExcept(symbol, trace) == EmptyResult(symbol, trace)
\* the handler around feature preparation (lines 1082-1090)
FeatureExcept(symbol, trace) == EmptyResult(symbol, trace)

\* variant: only None is recognised, an empty matrix is not
NoFeaturesNoneOnly(f) == f.kind = "none"
\* X is None or len(X) == 0 (line 1073)
NoFeatures(f) == f.kind = "none" \/ (f.kind = "rows" /\ f.rows = 0)

\* a rule chain whose sideways outcomes leave the caller's label in place
RegimeKeptWhenUnclear(market_condition, stats) ==
    IF DetectRegime(stats.trend, stats.volatility, stats.momentum, stats.rsi_avg)
         = "sideways"
    THEN market_condition
    ELSE DetectRegime(stats.trend, stats.volatility, stats.momentum, stats.rsi_avg)

\* the regime the pipeline works with after lines 1007-1031
RegimeUsed(market_condition, stats) ==
    DetectRegime(stats.trend, stats.volatility, stats.momentum, stats.rsi_avg)

NoTrace == [features |-> <<>>, predict |-> <<>>, signals |-> <<>>, simulator |-> 0]

\* regime-specific relaxed minimum (lines 1129-1137)
RelaxedMinimum(regime, length) ==
    IF regime = "bullish" THEN Max(20, length \div 6)
    ELSE IF regime = "bearish" THEN Max(25, length \div 5)
    ELSE Max(15, length \div 8)

\* signals[:len(valid_index)] (line 1229): still a Series
Truncated(generated, m) ==
    [index |-> [k \in 1..m |-> k - 1], values |-> SubSeq(generated, 1, m)]

\* np.pad(signals, (0, pad_width), 'constant') (lines 1232-1234): an array
Padded(generated, m) ==
    [index |-> <<>>,
     values |-> [k \in 1..m |-> IF k <= Len(generated) THEN generated[k] ELSE 0]]

\* the signals handed to pd.Series for an aligned index of m dates
AlignedData(generated, mismatch, m) ==
    IF ~mismatch THEN RangeSeries(generated)
    ELSE IF Len(generated) > m THEN Truncated(generated, m)
    ELSE Padded(generated, m)

\* aligned_signals.iloc[0] = 0 (line 1237)
ZeroFirst(series) ==
    [index |-> series.index,
     values |-> [k \in DOMAIN series.values |-> IF k = 1 THEN 0 ELSE series.values[k]]]

\* lines 1236-1255 for the aligned index valid_index
Simulate(symbol, env, regime, predictions, generated, trace, mismatch, start_row, valid_index) ==
    IF Len(valid_index) = 0
    THEN OuterExcept(symbol, trace)                  \* aligned_signals.iloc[0] = 0
    ELSE IF env.simulator = "raise"
    THEN OuterExcept(symbol, [trace EXCEPT !.simulator = 1])
    ELSE [symbol |-> symbol,
          results |-> [index |-> valid_index,
                       returns |-> [k \in DOMAIN valid_index |->
                                       SimulatedReturn(env.simulator, k)]],
          metrics |-> "computed", predictions |-> predictions,
          signals |-> ZeroFirst(PdSeries(valid_index,
                          AlignedData(generated, mismatch, Len(valid_index)),
                          ~mismatch \/ Len(generated) > Len(valid_index))),
          market_condition |-> regime,
          raised |-> FALSE, logged_error |-> FALSE,
          trace |-> [trace EXCEPT !.simulator = 1],
          generated |-> generated, start_row |-> start_row,
          simulated_index |-> valid_index]

\* the aligned index (lines 1205-1225), given test_data.index[valid_start:valid_end]
AlignTo(self, symbol, env, regime, lookback, predictions, generated, trace, first_index) ==
    LET mismatch == Len(generated) # Len(first_index)
        start_idx == IF self.model_type \in SequentialModels
                     THEN lookback + self.sequence_length - 1
                     ELSE lookback
        end_idx == Min(env.length - prediction_window, start_idx + Len(generated))
    IN Simulate(symbol, env, regime, predictions, generated, trace, mismatch,
                IF mismatch THEN start_idx ELSE lookback,
                IF mismatch THEN IndexSlice(env, start_idx, end_idx) ELSE first_index)

\* signal alignment and simulation (lines 1205-1255)
AlignAndSimulate(self, symbol, env, regime, lookback, predictions, generated, trace) ==
    AlignTo(self, symbol, env, regime, lookback, predictions, generated, trace,
            IndexSlice(env, lookback, env.length - prediction_window))

\* lines 1192-1255, given what generate_signals did
AfterSignals(self, symbol, env, regime, lookback, predictions, generated, trace) ==
    IF generated.raised
    THEN PredictExcept(symbol, [trace EXCEPT !.signals =
             Append(@, [regime |-> regime, raised |-> TRUE])])
    ELSE AlignAndSimulate(self, symbol, env, regime, lookback, predictions,
             generated.signals,
             [trace EXCEPT !.signals = Append(@, [regime |-> regime, raised |-> FALSE])])

\* lines 1176-1255, given what predict returned
AfterPredict(self, symbol, env, regime, lookback, predictions, trace) ==
    IF env.predict = "raise" THEN PredictExcept(symbol, trace)
    ELSE IF env.predict \in {"none", "empty"} \/ Len(predictions) = 0
    THEN EmptyResult(symbol, trace)
    ELSE AfterSignals(self, symbol, env, regime, lookback, predictions,
                      generate_signals(predictions, regime), trace)

\* prediction and signal generation (lines 1153-1203)
PredictAndSignal(self, symbol, env, regime, lookback, rows, trace) ==
    AfterPredict(self, symbol, env, regime, lookback,
        IF env.predict \in {"none", "empty", "raise"} THEN <<>>
        ELSE PredictionsOf(env.predict, rows),
        [trace EXCEPT !.predict = Append(@,
            IF self.model_type = "MockStockPredictionFNN" THEN regime
            ELSE "not passed")])

\* what the feature preparer is asked for: the lookback and the regime
FeatureCall(lookback, regime) == [lookback |-> lookback, regime |-> regime]

\* variant: the relaxed minimum is tried on the first matrix before the retry
ValidateSequencesRelaxFirst(self, symbol, env, regime, trace1, trace2) ==
    LET min_sequences == Max(30, env.length \div 5)
        shorter_lookback == Max(5, base_lookback - 3)
    IN IF env.features.rows >= min_sequences
       THEN PredictAndSignal(self, symbol, env, regime, base_lookback,
                             env.features.rows, trace1)
       ELSE IF env.features.rows >= RelaxedMinimum(regime, env.length)
       THEN PredictAndSignal(self, symbol, env, regime, base_lookback,
                             env.features.rows, trace1)
       ELSE IF env.retry.kind = "raise" THEN OuterExcept(symbol, trace2)
       ELSE IF env.retry.kind = "rows" /\ env.retry.rows >= min_sequences
       THEN PredictAndSignal(self, symbol, env, regime, shorter_lookback,
                             env.retry.rows, trace2)
       ELSE EmptyResult(symbol, trace2)

\* lines 1105-1255: the sequence count, the retry with a shorter lookback
\* and the relaxed minimum
ValidateSequences(self, symbol, env, regime, trace1, trace2) ==
    LET min_sequences == Max(30, env.length \div 5)
        shorter_lookback == Max(5, base_lookback - 3)
    IN IF env.features.rows >= min_sequences
       THEN PredictAndSignal(self, symbol, env, regime, base_lookback,
                             env.features.rows, trace1)
       ELSE IF env.retry.kind = "raise" THEN OuterExcept(symbol, trace2)
       ELSE IF env.retry.kind = "rows" /\ env.retry.rows >= min_sequences
       THEN PredictAndSignal(self, symbol, env, regime, shorter_lookback,
                             env.retry.rows, trace2)
       ELSE IF env.features.rows >= RelaxedMinimum(regime, env.length)
       THEN PredictAndSignal(self, symbol, env, regime, base_lookback,
                             env.features.rows, trace2)
       ELSE EmptyResult(symbol, trace2)

\* lines 1051-1255 with the regime in use
Pipeline(self, symbol, env, regime, trace1) ==
    IF env.features.kind = "raise" THEN FeatureExcept(symbol, trace1)
    ELSE IF NoFeatures(env.features) THEN EmptyResult(symbol, trace1)
    ELSE ValidateSequences(self, symbol, env, regime, trace1,
             [trace1 EXCEPT !.features =
                 Append(@, FeatureCall(Max(5, base_lookback - 3), regime))])

WithRegime(self, symbol, env, regime) ==
    Pipeline(self, symbol, env, regime,
        [NoTrace EXCEPT !.features =
            <<FeatureCall(IF self.model_type \in SequentialModels
                          THEN self.sequence_length ELSE 10, regime)>>])

backtest(self, symbol, env, market_condition) ==
    IF env.indicators = "raise" \/ env.stats.kind = "raise"
    THEN OuterExcept(symbol, NoTrace)
    ELSE WithRegime(self, symbol, env, RegimeUsed(market_condition, env.stats))

(***************************************************************************)
(* _calculate_optimal_weights (lines 1614-1660)                            *)
(* `returns' is a sequence of columns, one return series per asset, all of *)
(* the same length; weights are in units of 1/Scale.                       *)
(***************************************************************************)
max_portfolio_size == 800
correlation_threshold == 700

DotSum(x, y) == SumOver([i \in 1..Len(x) |-> x[i] * y[i]], 1..Len(x))
\* c * sum(x^2) - sum(x)^2: c * (c - 1) times the sample variance
VarianceNumerator(x) ==
    LET s1 == SumOver(x, 1..Len(x)) IN Len(x) * DotSum(x, x) - s1 * s1

\* returns.corr().iat[i, j]: NaN when a series is constant or too short
Correlation(x, y) ==
    LET c == Len(x)
        vx == VarianceNumerator(x)
        vy == VarianceNumerator(y)
        cov == c * DotSum(x, y) - SumOver(x, 1..c) * SumOver(y, 1..c)
    IN IF c < 2 \/ vx = 0 \/ vy = 0 THEN NaN
       ELSE (cov * Scale) \div Isqrt(vx * vy)

CorrelationMatrix(returns) ==
    [i \in 1..Len(returns) |-> [j \in 1..Len(returns) |->
        Correlation(returns[i], returns[j])]]

\* weights / weights.sum(): the sum skips NaN; a zero sum gives NaN
Normalize(w) ==
    LET I == {i \in DOMAIN w : w[i] # NaN}
        total == SumOver(w, I)
    IN [i \in DOMAIN w |->
          IF w[i] = NaN \/ total = 0 THEN NaN ELSE (w[i] * Scale) \div total]

\* 1 / max(volatility, 1e-10), normalised to sum 1 (lines 1625-1636).  A
\* series of fewer than two rows has no deviation (NaN); a constant series
\* has volatility 0 and weight 1e10, which leaves every other asset a share
\* below the resolution of the model.
InverseVolatilityWeights(returns) ==
    LET n == Len(returns)
        rows(i) == Len(returns[i])
        dev == [i \in 1..n |-> Isqrt(VarianceNumerator(returns[i]) * 10000)]
        zero == {i \in 1..n : rows(i) >= 2 /\ dev[i] = 0}
        inv == [i \in 1..n |->
                  IF rows(i) < 2 THEN NaN
                  ELSE IF zero # {} THEN (IF i \in zero THEN 10000 ELSE 0)
                  ELSE 10000000 \div dev[i]]
    IN Normalize(inv)

\* scale of one pair (line 1647)
PairScale(corr_value) ==
    Max(0, Min(Scale, Scale - (corr_value - correlation_threshold)))

\* the pairs (i, j), i < j, in the order of the two loops (lines 1639-1640)
RECURSIVE PairsFrom(_, _, _)
PairsFrom(i, j, n) ==
    IF i >= n THEN <<>>
    ELSE IF j > n THEN PairsFrom(i + 1, i + 2, n)
    ELSE <<<<i, j>>>> \o PairsFrom(i, j + 1, n)

\* variant: only the first asset of a correlated pair is scaled down
RECURSIVE AdjustFirstOfPairOnly(_, _, _)
AdjustFirstOfPairOnly(w, corr, pairs) ==
    IF pairs = <<>> THEN w
    ELSE LET i == pairs[1][1]
             c == corr[i][pairs[1][2]]
         IN AdjustFirstOfPairOnly(
                IF Finite(c) /\ c > correlation_threshold
                THEN [w EXCEPT ![i] = Mul(w[i], PairScale(c))] ELSE w,
                corr, Tail(pairs))

\* correlation adjustment (lines 1638-1651), pair after pair on the same vector
RECURSIVE AdjustForCorrelation(_, _, _)
AdjustForCorrelation(w, corr, pairs) ==
    IF pairs = <<>> THEN w
    ELSE LET i == pairs[1][1]
             j == pairs[1][2]
             c == corr[i][j]
             next == IF Finite(c) /\ c > correlation_threshold
                     THEN [w EXCEPT ![i] = Mul(w[i], PairScale(c)),
                                    ![j] = Mul(w[j], PairScale(c))]
                     ELSE w
         IN AdjustForCorrelation(next, corr, Tail(pairs))

\* position limits (lines 1656-1658): clip, then rescale the clipped vector
ApplyPositionLimits(w) ==
    LET clipped == [i \in DOMAIN w |-> Clip(w[i], 0, max_position_size)]
        shares == Normalize(clipped)
    IN [i \in DOMAIN w |-> Mul(shares[i], max_portfolio_size)]

\* lines 1638-1660 for given initial weights and correlations
WeightsFrom(initial, corr) ==
    LET n == Len(initial)
        adjusted == AdjustForCorrelation(initial, corr, PairsFrom(1, 2, n))
    IN ApplyPositionLimits(Normalize(adjusted))

calculate_optimal_weights(returns) ==
    WeightsFrom(InverseVolatilityWeights(returns), CorrelationMatrix(returns))

\* the weights as the pairwise loop leaves them (after line 1651)
WeightsAfterLoop(returns) ==
    AdjustForCorrelation(InverseVolatilityWeights(returns), CorrelationMatrix(returns),
                         PairsFrom(1, 2, Len(returns)))

\* the same assets with every pairwise correlation 0
UncorrelatedBaseline(returns) ==
    WeightsFrom(InverseVolatilityWeights(returns),
                [i \in 1..Len(returns) |-> [j \in 1..Len(returns) |-> 0]])

(***************************************************************************)
(* calculate_portfolio_metrics (lines 1532-1612)                           *)
(* results_dict is a sequence of return columns, one per asset; the        *)
(* non-empty ones have the same rows.  Returns and metrics are in units of *)
(* 1/Scale.                                                                *)
(***************************************************************************)
risk_free_rate == 20
TradingDays == 252
\* np.sqrt(252), in units of 1/Scale
SqrtTradingDays == 15875

\* x ** k for a whole k >= 0, by repeated squaring
RECURSIVE Pow(_, _)
Pow(x, k) ==
    IF k = 0 THEN Scale
    ELSE IF k % 2 = 1 THEN Mul(x, Pow(x, k - 1))
    ELSE Pow(Mul(x, x), k \div 2)

\* the largest x >= 0 in units of 1/Scale with x ** n <= v
RootBound == 3000
NthRoot(v, n) ==
    CHOOSE x \in 0..RootBound :
        Pow(x, n) <= v /\ (x = RootBound \/ Pow(x + 1, n) > v)

\* the columns calculate_portfolio_metrics keeps (lines 1546-1549)
NonEmptyColumns(results_dict) == SelectSeq(results_dict, LAMBDA col : Len(col) > 0)

\* (portfolio_returns * weights).sum(axis=1): NaN products are skipped
WeightedReturns(returns, weights) ==
    [t \in 1..Len(returns[1]) |->
        SumOver([i \in 1..Len(returns) |-> returns[i][t] * weights[i]],
                {i \in 1..Len(returns) : weights[i] # NaN}) \div Scale]

\* (1.0 + weighted_returns).cumprod()
CumProd(weighted_returns) ==
    LET f[t \in 0..Len(weighted_returns)] ==
            IF t = 0 THEN Scale ELSE Mul(f[t - 1], Scale + weighted_returns[t])
    IN [t \in 1..Len(weighted_returns) |-> f[t]]

\* cumulative_returns.expanding(min_periods=1).max()
ExpandingMax(cumulative) ==
    [t \in DOMAIN cumulative |->
        CHOOSE v \in {cumulative[u] : u \in 1..t} : \A u \in 1..t : cumulative[u] <= v]

\* (cumulative_returns - peak) / peak: 0/0 is NaN, x/0 an infinity
Drawdown(cumulative, peak) ==
    [t \in DOMAIN cumulative |->
        IF peak[t] = 0
        THEN (IF cumulative[t] = 0 THEN NaN ELSE NegInf)
        ELSE ((cumulative[t] - peak[t]) * Scale) \div peak[t]]

\* drawdown.min(): NaN entries are skipped; NaN when nothing is left
MinSkipNaN(xs) ==
    LET I == {t \in DOMAIN xs : xs[t] # NaN}
    IN IF I = {} THEN NaN
       ELSE IF \E t \in I : xs[t] = NegInf THEN NegInf
       ELSE CHOOSE v \in {xs[t] : t \in I} : \A t \in I : v <= xs[t]

\* drawdown[drawdown < 0].mean(), 0.0 when no entry is negative
AvgDrawdown(drawdown) ==
    LET I == {t \in DOMAIN drawdown : drawdown[t] # NaN /\ (drawdown[t] = NegInf \/ drawdown[t] < 0)}
    IN IF I = {} THEN 0
       ELSE IF \E t \in I : drawdown[t] = NegInf THEN NegInf
       ELSE SumOver(drawdown, I) \div Cardinality(I)

\* whether 1.0 / (n / 252.0) is a whole number in double arithmetic, which
\* it is exactly when n divides 252 (n up to 12)
WholeExponent(n) == TradingDays % n = 0

\* final_value ** (1.0 / years) - 1.0 (line 1569): a negative base gives a
\* real number for a whole exponent and a complex number otherwise, which
\* float() rejects
CagrOf(final_value, n) ==
    IF WholeExponent(n)
    THEN [raised |-> FALSE, value |-> Pow(final_value, TradingDays \div n) - Scale]
    ELSE IF final_value < 0 THEN [raised |-> TRUE, value |-> NaN]
    ELSE [raised |-> FALSE,
          value |-> Pow(NthRoot(final_value, n), TradingDays) - Scale]

\* abs(cagr / max_drawdown) if abs(max_drawdown) > 1e-10 else 0.0 (line 1576)
CagrToDrawdown(cagr, max_drawdown) ==
    IF max_drawdown = NaN \/ max_drawdown = 0 \/ max_drawdown = NegInf THEN 0
    ELSE Abs((cagr * Scale) \div max_drawdown)

\* returns_std * np.sqrt(252) if returns_std != 0 else 0.0 (line 1580)
Volatility(returns_std) ==
    IF returns_std = NaN THEN NaN
    ELSE IF returns_std = 0 THEN 0
    ELSE Mul(returns_std, SqrtTradingDays)

\* the mean of the excess returns in units of 1/(Scale * Scale): the daily
\* risk-free rate 0.02 / 252 is 79 of these units
ExcessMean(weighted_returns) ==
    (SumOver(weighted_returns, DOMAIN weighted_returns) * Scale)
        \div Len(weighted_returns) - (risk_free_rate * Scale) \div TradingDays

\* lines 1582-1587
SharpeRatio(weighted_returns, excess_returns_std) ==
    IF excess_returns_std = NaN \/ excess_returns_std <= 0 THEN 0
    ELSE ((ExcessMean(weighted_returns) \div excess_returns_std) * SqrtTradingDays)
             \div Scale

\* lines 1590-1595: np.mean over the pairs above the diagonal, 0.0 when
\* there is no pair; np.mean does not skip NaN
AvgCorrelation(returns) ==
    LET pairs == {pr \in (1..Len(returns)) \X (1..Len(returns)) : pr[1] < pr[2]}
        corr == [pr \in pairs |-> Correlation(returns[pr[1]], returns[pr[2]])]
    IN IF pairs = {} THEN 0
       ELSE IF \E pr \in pairs : corr[pr] = NaN THEN NaN
       ELSE SumOver(corr, pairs) \div Cardinality(pairs)

NoMetrics == [empty |-> TRUE, raised |-> FALSE, error |-> "none"]
MetricsRaised(kind) == [empty |-> FALSE, raised |-> TRUE, error |-> kind]

\* lines 1571-1612
MetricsDict(returns, weights, weighted_returns, drawdown, cagr, returns_std) ==
    IF cagr.raised THEN MetricsRaised("TypeError")
    ELSE [empty |-> FALSE, raised |-> FALSE, error |-> "none",
          cagr |-> cagr.value,
          max_drawdown |-> MinSkipNaN(drawdown),
          avg_drawdown |-> AvgDrawdown(drawdown),
          cagr_to_drawdown |-> CagrToDrawdown(cagr.value, MinSkipNaN(drawdown)),
          volatility |-> Volatility(returns_std),
          sharpe_ratio |-> SharpeRatio(weighted_returns, returns_std),
          avg_correlation |-> AvgCorrelation(returns),
          portfolio_weights |-> weights]

\* lines 1561-1612
MetricsOver(returns, weights, weighted_returns, cumulative) ==
    MetricsDict(returns, weights, weighted_returns,
                Drawdown(cumulative, ExpandingMax(cumulative)),
                CagrOf(cumulative[Len(cumulative)], Len(cumulative)),
                StdOf(weighted_returns, DOMAIN weighted_returns, 1))

\* lines 1556-1612
MetricsWeighted(returns, weights, weighted_returns) ==
    MetricsOver(returns, weights, weighted_returns, CumProd(weighted_returns))

\* lines 1554-1612
MetricsFrom(returns, weights) ==
    MetricsWeighted(returns, weights, WeightedReturns(returns, weights))

MetricsOfColumns(returns) ==
    IF Len(returns) = 0 THEN NoMetrics
    ELSE MetricsFrom(returns, calculate_optimal_weights(returns))

calculate_portfolio_metrics(results_dict) ==
    MetricsOfColumns(NonEmptyColumns(results_dict))

(***************************************************************************)
(* backtest_portfolio (lines 1298-1409)                                    *)
(***************************************************************************)
initial_capital == 100000
MonthLength == 30

RECURSIVE SortedSeq(_)
SortedSeq(S) ==
    IF S = {} THEN <<>>
    ELSE LET m == CHOOSE x \in S : \A y \in S : x <= y IN <<m>> \o SortedSeq(S \ {m})

\* pd.date_range(start, end, freq): 'B' business days, 'W' Sundays, 'M' month
\* ends; a frequency other than daily and weekly takes the monthly branch
RebalanceDates(frequency, start, end) ==
    SortedSeq({d \in start..end :
        IF frequency = "daily" THEN Weekday(d) <= 4
        ELSE IF frequency = "weekly" THEN Weekday(d) = 6
        ELSE (d - DateBase) % MonthLength = MonthLength - 1})

\* pd.DataFrame({s: r['returns'] ...}) of scalar values without an index
\* (line 1365): possible only for an empty mapping
FrameFromScalars(asset_data) == asset_data = {}

\* calculate_portfolio_metrics (lines 1532-1612): here only whether it
\* returns metrics or the empty mapping
PortfolioMetricsOf(tables) ==
    IF \E k \in 1..Len(tables) : Len(tables[k].table.index) > 0
    THEN "computed" ELSE "empty"

EmptyPortfolio(history) ==
    [result |-> [raised |-> FALSE, error |-> "none", empty |-> TRUE,
                 symbols |-> <<>>, portfolio_equity |-> <<>>, dates |-> <<>>,
                 portfolio_metrics |-> "empty", asset_results |-> <<>>, positions |-> <<>>,
                 final_equity |-> NaN, total_return |-> NaN],
     history |-> history]
PortfolioRaised(kind, history) ==
    [result |-> [raised |-> TRUE, error |-> kind, empty |-> FALSE,
                 symbols |-> <<>>, portfolio_equity |-> <<>>, dates |-> <<>>,
                 portfolio_metrics |-> "empty", asset_results |-> <<>>, positions |-> <<>>,
                 final_equity |-> NaN, total_return |-> NaN],
     history |-> history]

\* variant: on every date each symbol's position is set to the whole equity
RECURSIVE RebalanceLoopFullyInvested(_, _, _, _, _, _, _)
RebalanceLoopFullyInvested(symbols, tables, dates, i, equity, positions, history) ==
    IF i > Len(dates)
    THEN [raised |-> FALSE, equity |-> equity, history |-> history]
    ELSE RebalanceLoopFullyInvested(symbols, tables, dates, i + 1,
             Append(equity, equity[i - 1]),
             [sym \in DOMAIN positions |-> equity[i - 1]],
             Append(history, [date |-> dates[i],
                              positions |-> [sym \in DOMAIN positions |-> equity[i - 1]],
                              portfolio_value |-> equity[i - 1]]))

\* the rebalancing loop (lines 1351-1392) from date number i on
RECURSIVE RebalanceLoop(_, _, _, _, _, _, _)
RebalanceLoop(symbols, tables, dates, i, equity, positions, history) ==
    IF i > Len(dates)
    THEN [raised |-> FALSE, equity |-> equity, history |-> history]
    ELSE LET date == dates[i]
             asset_data == {k \in 1..Len(tables) :
                              \E r \in 1..Len(tables[k].table.index) :
                                  tables[k].table.index[r] = date}
             \* the weights of an empty frame are empty: no position changes
             \* and the period's return is 0
             new_equity == Append(equity, equity[i - 1])
             snapshot == [date |-> date, positions |-> positions,
                          portfolio_value |-> equity[i - 1]]
         IN IF ~FrameFromScalars(asset_data)
            THEN [raised |-> TRUE, equity |-> equity, history |-> history]
            ELSE RebalanceLoop(symbols, tables, dates, i + 1, new_equity, positions,
                               Append(history, snapshot))

SymbolSet(symbols) == {symbols[k] : k \in 1..Len(symbols)}

\* the per-symbol loop (lines 1313-1318): one backtest per listed symbol
\* that has data
PortfolioRuns(self, symbols, test_data_dict) ==
    LET present == SelectSeq(symbols, LAMBDA sym : sym \in DOMAIN test_data_dict)
    IN [k \in 1..Len(present) |->
          backtest(self, present[k], test_data_dict[present[k]], "normal")] \o <<>>

\* results_dict[symbol] = results['results'], empty tables included
ResultTables(runs) ==
    [k \in 1..Len(runs) |-> [symbol |-> runs[k].symbol, table |-> runs[k].results]]

FirstDate(table) == table.index[1]
LastDate(table) == table.index[Len(table.index)]

\* the rebalance dates of tables none of which is empty (lines 1326-1344)
PortfolioDates(frequency, tables) ==
    LET start == CHOOSE d \in {FirstDate(tables[k].table) : k \in 1..Len(tables)} :
                     \A k \in 1..Len(tables) : d <= FirstDate(tables[k].table)
        end == CHOOSE d \in {LastDate(tables[k].table) : k \in 1..Len(tables)} :
                   \A k \in 1..Len(tables) : d >= LastDate(tables[k].table)
    IN RebalanceDates(frequency, start, end)

\* lines 1394-1409, given what the rebalancing loop did
PortfolioResult(symbols, tables, dates, loop) ==
    IF loop.raised THEN PortfolioRaised("ValueError", loop.history)
    ELSE [result |-> [raised |-> FALSE, error |-> "none", empty |-> FALSE,
                      symbols |-> symbols, portfolio_equity |-> loop.equity,
                      dates |-> dates, portfolio_metrics |-> PortfolioMetricsOf(tables),
                      asset_results |-> tables, positions |-> loop.history,
                      final_equity |-> loop.equity[Len(loop.equity)],
                      total_return |-> (loop.equity[Len(loop.equity)] * Scale)
                                           \div loop.equity[1] - Scale],
          history |-> loop.history]

\* lines 1346-1409 for the rebalance dates
Rebalance(history, symbols, tables, dates) ==
    \* portfolio_equity[-1] of an empty series (line 1398)
    IF Len(dates) = 0 THEN PortfolioRaised("IndexError", history)
    ELSE PortfolioResult(symbols, tables, dates,
             RebalanceLoop(symbols, tables, dates, 2, <<initial_capital>>,
                           [sym \in SymbolSet(symbols) |-> 0], history))

\* lines 1320-1409 for the result tables
PortfolioOver(self, history, symbols, tables) ==
    IF Len(tables) = 0 THEN EmptyPortfolio(history)
    \* df.index[0] of an empty result table (lines 1329-1343)
    ELSE IF \E k \in 1..Len(tables) : Len(tables[k].table.index) = 0
    THEN PortfolioRaised("IndexError", history)
    ELSE Rebalance(history, symbols, tables,
                   PortfolioDates(self.rebalance_frequency, tables))

\* lines 1317-1409 for the individual backtests
PortfolioFrom(self, history, symbols, runs) ==
    IF \E k \in 1..Len(runs) : runs[k].raised
    THEN PortfolioRaised("propagated", history)
    ELSE PortfolioOver(self, history, symbols, ResultTables(runs))

backtest_portfolio(self, history, symbols, test_data_dict) ==
    IF Len(symbols) = 0 \/ DOMAIN test_data_dict = {} THEN EmptyPortfolio(history)
    ELSE PortfolioFrom(self, history, symbols,
                       PortfolioRuns(self, symbols, test_data_dict))

\* rebalance_dates (lines 1326-1344) of a call; none when the call returns
\* or raises before it computes them
DatesOver(self, tables) ==
    IF Len(tables) = 0 \/ \E k \in 1..Len(tables) : Len(tables[k].table.index) = 0
    THEN <<>>
    ELSE PortfolioDates(self.rebalance_frequency, tables)
DatesFrom(self, runs) ==
    IF \E k \in 1..Len(runs) : runs[k].raised THEN <<>>
    ELSE DatesOver(self, ResultTables(runs))
rebalance_dates(self, symbols, test_data_dict) ==
    IF Len(symbols) = 0 \/ DOMAIN test_data_dict = {} THEN <<>>
    ELSE DatesFrom(self, PortfolioRuns(self, symbols, test_data_dict))

(***************************************************************************)
(* The backtester as the operations see it                                 *)
(***************************************************************************)
sequence_length == 10
Self == [model_type |-> model_type, sequence_length |-> sequence_length,
         rebalance_frequency |-> rebalance_frequency]

NoArgs == [op |-> "none"]
NoResult == [op |-> "none"]

(***************************************************************************)
(* Input sets                                                              *)
(***************************************************************************)
MaxLen == 3
TailLen == 3
MaxAssets == 3
MaxHistory == 6

Labels == Regimes \cup {"normal"}
PredLevels == {0, 500, 1000}
SeqsOfLen(n) == [1..n -> PredLevels]
\* prefixes after which a run of high (low) predictions satisfies the long
\* (short) condition
RampBase == <<0, 0, 1000, 0, 0, 500>>
DipBase == <<1000, 0, 0, 1000, 0, 500>>
\* a constant prediction series: v at each of n timesteps
Flat(v, n) == [t \in 1..n |-> v]
FlatLen == 30
FlatInputs == {Flat(500, n) : n \in 1..FlatLen}
\* thirty-step series at 0.9: the constant one, and one that climbs to 0.9
\* again and again, so that the long condition holds at the end of each climb
ScenarioLen == 30
ClimbPattern == <<0, 500, 500, 900, 900, 900>>
Climb == [t \in 1..ScenarioLen |-> ClimbPattern[((t - 1) % 6) + 1]]
ScenarioInputs == {Flat(900, ScenarioLen), Climb}
PredictionInputs ==
    UNION {SeqsOfLen(n) : n \in 0..MaxLen}
    \cup {RampBase \o tail : tail \in SeqsOfLen(TailLen)}
    \cup {DipBase \o tail : tail \in SeqsOfLen(TailLen)}
    \cup FlatInputs \cup ScenarioInputs

SeriesFamily == {<<10, -10, 20, 0>>, <<0, -10, 10, 0>>, <<20, -20, 40, 0>>,
                 <<5, 5, 5, 5>>, <<0, 20, 10, -10>>}
ReturnFrames == UNION {[1..n -> SeriesFamily] : n \in 1..MaxAssets}
                \cup {[k \in 1..4 |-> <<10, -10, 20, 0>>]}

Stats(t, v, m, r) == [kind |-> "ok", trend |-> t, volatility |-> v,
                      momentum |-> m, rsi_avg |-> r]
StatsRaise == [kind |-> "raise", trend |-> 0, volatility |-> 0,
               momentum |-> 0, rsi_avg |-> 0]
StatsCases == {Stats(50, 1500, 10, 5500), Stats(-50, 2000, -10, 3500),
               Stats(0, 1500, 0, 5000)}
Rows(n) == [kind |-> "rows", rows |-> n]
FeatureNone == [kind |-> "none", rows |-> 0]
FeatureRaise == [kind |-> "raise", rows |-> 0]
Symbols == {"AAA", "BBB"}

DefaultEnv == [length |-> 46, index_kind |-> "date", start |-> 0, indicators |-> "ok",
               stats |-> Stats(0, 1500, 0, 5000), features |-> Rows(31),
               retry |-> FeatureNone, predict |-> "flat", simulator |-> "mixed"]

BacktestEnvs ==
    {[DefaultEnv EXCEPT !.indicators = "raise"], [DefaultEnv EXCEPT !.stats = StatsRaise]}
    \cup [length : {12, 40, 46}, index_kind : {"date", "range"}, start : {0},
          indicators : {"ok"}, stats : StatsCases,
          features : {FeatureRaise, FeatureNone, Rows(0), Rows(22), Rows(31)},
          retry : {FeatureRaise, FeatureNone, Rows(31)},
          predict : {"raise", "none", "empty", "flat", "spike"},
          simulator : {"raise", "mixed"}]

PortfolioEnvs ==
    {DefaultEnv,
     [DefaultEnv EXCEPT !.start = 3, !.simulator = "gain"],
     [DefaultEnv EXCEPT !.features = FeatureNone],
     [DefaultEnv EXCEPT !.predict = "spike"]}
DataDicts == UNION {[D -> PortfolioEnvs] : D \in SUBSET Symbols}
SymbolLists == {<<>>, <<"AAA">>, <<"AAA", "BBB">>}
Frequencies == {"daily", "weekly", "monthly", "hourly"}

(***************************************************************************)
(* generate_signals as a function of its arguments                         *)
(***************************************************************************)
InitSignals ==
    /\ model_type = "MockStockPredictionFNN"
    /\ rebalance_frequency = "daily"
    /\ position_history = <<>>
    /\ pc = "call"
    /\ args \in [op : {"generate_signals"}, predictions : PredictionInputs,
                 market_condition : Labels]
    /\ last = NoResult

GenerateSignals ==
    /\ pc = "call"
    /\ args.op = "generate_signals"
    /\ last' = generate_signals(args.predictions, args.market_condition)
    /\ pc' = "done"
    /\ UNCHANGED <<model_type, rebalance_frequency, position_history, args>>

NextSignals == GenerateSignals
SpecSignals == InitSignals /\ [][NextSignals]_vars

(***************************************************************************)
(* _calculate_optimal_weights as a function of its argument                *)
(***************************************************************************)
InitWeights ==
    /\ model_type = "MockStockPredictionFNN"
    /\ rebalance_frequency = "daily"
    /\ position_history = <<>>
    /\ pc = "call"
    /\ args \in [op : {"weights"}, returns : ReturnFrames]
    /\ last = NoResult

CalculateOptimalWeights ==
    /\ pc = "call"
    /\ args.op = "weights"
    /\ last' = [weights |-> calculate_optimal_weights(args.returns),
                baseline |-> UncorrelatedBaseline(args.returns),
                after_loop |-> WeightsAfterLoop(args.returns)]
    /\ pc' = "done"
    /\ UNCHANGED <<model_type, rebalance_frequency, position_history, args>>

NextWeights == CalculateOptimalWeights
SpecWeights == InitWeights /\ [][NextWeights]_vars

(***************************************************************************)
(* Regime detection as a function of the four statistics                   *)
(***************************************************************************)
\* values of the statistics on both sides of every threshold of the rule
\* chain, beyond the clipping bounds, and the non-finite ones
TrendValues == {NaN, NegInf, -1500, -21, -20, 0, 20, 21, PosInf}
VolatilityValues == {NaN, 0, 1500, 1501, 1900, 2000, 2600, PosInf}
MomentumValues == {NaN, NegInf, -4, -3, 0, 3, 4, PosInf}
RsiValues == {NaN, NegInf, 3900, 4400, 4600, 6400, 6500, PosInf}

InitRegime ==
    /\ model_type = "MockStockPredictionFNN"
    /\ rebalance_frequency = "daily"
    /\ position_history = <<>>
    /\ pc = "call"
    /\ args \in [op : {"detect_regime"}, market_condition : Labels,
                 stats : {Stats(t, v, m, r) : t \in TrendValues, v \in VolatilityValues,
                                              m \in MomentumValues, r \in RsiValues}]
    /\ last = NoResult

DetectRegimeStep ==
    /\ pc = "call"
    /\ args.op = "detect_regime"
    /\ last' = [market_condition |-> RegimeUsed(args.market_condition, args.stats)]
    /\ pc' = "done"
    /\ UNCHANGED <<model_type, rebalance_frequency, position_history, args>>

NextRegime == DetectRegimeStep
SpecRegime == InitRegime /\ [][NextRegime]_vars

(***************************************************************************)
(* calculate_portfolio_metrics as a function of its argument               *)
(***************************************************************************)
MaxPeriods == 6
\* per-period returns of -150%, -125%, -1%, -0.5%, 0, 0.5% and 1%
ConstantReturns == {-1500, -1250, -10, -5, 0, 5, 10}
\* one asset whose return is the same in every period
ConstantFrames == {<<Flat(r, n)>> : r \in ConstantReturns, n \in 1..MaxPeriods}
\* no table, one empty table, a constant asset next to others, and the
\* frames of the weights specification
MetricsInputs ==
    {<<>>, << <<>> >>, << <<>>, <<5, 5, 5, 5>> >>}
    \cup ConstantFrames \cup ReturnFrames

InitMetrics ==
    /\ model_type = "MockStockPredictionFNN"
    /\ rebalance_frequency = "daily"
    /\ position_history = <<>>
    /\ pc = "call"
    /\ args \in [op : {"metrics"}, results_dict : MetricsInputs]
    /\ last = NoResult

CalculatePortfolioMetrics ==
    /\ pc = "call"
    /\ args.op = "metrics"
    /\ last' = calculate_portfolio_metrics(args.results_dict)
    /\ pc' = "done"
    /\ UNCHANGED <<model_type, rebalance_frequency, position_history, args>>

NextMetrics == CalculatePortfolioMetrics
SpecMetrics == InitMetrics /\ [][NextMetrics]_vars

(***************************************************************************)
(* backtest on a constructed backtester                                    *)
(***************************************************************************)
InitBacktest ==
    /\ model_type \in ValidModels
    /\ rebalance_frequency = "daily"
    /\ position_history = <<>>
    /\ pc = "call"
    /\ args \in [op : {"backtest"}, symbol : {"AAA"}, env : BacktestEnvs,
                 market_condition : Labels]
    /\ last = NoResult

Backtest ==
    /\ pc = "call"
    /\ args.op = "backtest"
    /\ last' = backtest(Self, args.symbol, args.env, args.market_condition)
    /\ pc' = "done"
    /\ UNCHANGED <<model_type, rebalance_frequency, position_history, args>>

NextBacktest == Backtest
SpecBacktest == InitBacktest /\ [][NextBacktest]_vars

(***************************************************************************)
(* The backtester object: construction, then portfolio backtests           *)
(***************************************************************************)
Init ==
    /\ model_type \in ValidModels
    /\ rebalance_frequency \in Frequencies
    /\ position_history = <<>>
    /\ pc = "idle"
    /\ args = NoArgs
    /\ last = NoResult

\* the call returns (or raises); the snapshots appended before that stay
Returns(out) ==
    /\ last' = out.result
    /\ position_history' = out.history

BacktestPortfolio(symbols, test_data_dict) ==
    /\ pc = "idle"
    /\ Len(position_history) < MaxHistory
    /\ Returns(backtest_portfolio(Self, position_history, symbols, test_data_dict))
    /\ args' = [op |-> "backtest_portfolio", symbols |-> symbols,
                test_data_dict |-> test_data_dict]
    /\ pc' = "done"
    /\ UNCHANGED <<model_type, rebalance_frequency>>

\* every field of the backtester that an operation can read
Backtester == [model_type |-> model_type, rebalance_frequency |-> rebalance_frequency,
               max_position_size |-> max_position_size,
               position_history |-> position_history]
\* the same backtester as construction left it
FreshBacktester == [Backtester EXCEPT !.position_history = <<>>]

\* a generate_signals whose answer depends on what earlier calls left behind
generate_signals_stateful(self, predictions, market_condition) ==
    IF Len(self.position_history) > 0 THEN Returned(<<>>)
    ELSE generate_signals(predictions, market_condition)

\* generate_signals as a method: of self it reads max_position_size only
\* (lines 561-562), which nothing assigns after construction
generate_signals_on(self, predictions, market_condition) ==
    generate_signals(predictions, market_condition)

\* generate_signals called on the backtester between other operations
CallInputs == {Flat(500, 3), <<0, 1000, 0>>, RampBase \o <<1000, 1000, 1000>>}
CallLabels == {"bullish", "normal"}

GenerateSignalsCall(predictions, market_condition) ==
    /\ pc = "idle"
    /\ last' = generate_signals_on(Backtester, predictions, market_condition)
    /\ args' = [op |-> "generate_signals", predictions |-> predictions,
                market_condition |-> market_condition]
    /\ pc' = "done"
    /\ UNCHANGED <<model_type, rebalance_frequency, position_history>>

\* the caller takes the result; the backtester is ready for the next call
Return ==
    /\ pc = "done"
    /\ pc' = "idle"
    /\ args' = NoArgs
    /\ last' = NoResult
    /\ UNCHANGED <<model_type, rebalance_frequency, position_history>>

Next ==
    \/ \E symbols \in SymbolLists, d \in DataDicts : BacktestPortfolio(symbols, d)
    \/ \E p \in CallInputs, mc \in CallLabels : GenerateSignalsCall(p, mc)
    \/ Return

Spec == Init /\ [][Next]_vars

(***************************************************************************)
(* Construction (lines 22-99) followed by portfolio backtests              *)
(***************************************************************************)
ModelClasses == ValidModels \cup {"LinearRegression"}
KnownFrequencies == {"daily", "weekly", "monthly"}

InitNew ==
    /\ model_type = "none"
    /\ rebalance_frequency = "none"
    /\ position_history = <<>>
    /\ pc = "new"
    /\ args = NoArgs
    /\ last = NoResult

\* __init__: the class name of the model is checked (lines 71-87), the
\* rebalance frequency is stored as given (line 59)
Construct(model_class, frequency) ==
    /\ pc = "new"
    /\ args' = [op |-> "__init__", model |-> model_class,
                rebalance_frequency |-> frequency]
    /\ IF model_class \in ValidModels
       THEN /\ model_type' = model_class
            /\ rebalance_frequency' = frequency
            /\ position_history' = <<>>
            /\ last' = NoResult
            /\ pc' = "constructed"
       ELSE /\ last' = [raised |-> TRUE, error |-> "ValueError"]
            /\ pc' = "failed"
            /\ UNCHANGED <<model_type, rebalance_frequency, position_history>>

\* the caller holds the new backtester
Constructed ==
    /\ pc = "constructed"
    /\ pc' = "idle"
    /\ args' = NoArgs
    /\ UNCHANGED <<model_type, rebalance_frequency, position_history, last>>

NextLifecycle ==
    \/ \E model_class \in ModelClasses, f \in Frequencies : Construct(model_class, f)
    \/ Constructed
    \/ \E symbols \in SymbolLists, d \in DataDicts : BacktestPortfolio(symbols, d)
    \/ Return

SpecLifecycle == InitNew /\ [][NextLifecycle]_vars

(***************************************************************************)
(* Per-symbol backtest calls in flight on one backtester                   *)
(* Here pc, args and last hold one entry per symbol: where that symbol's   *)
(* call stands, what it was called with, and its local variables.  A call  *)
(* takes two steps, regime detection (lines 966-1031) and the rest of the  *)
(* method (lines 1049-1265); steps of different calls interleave freely.   *)
(***************************************************************************)
ConcurrentEnvs ==
    {[DefaultEnv EXCEPT !.indicators = "raise"]}
    \cup {[DefaultEnv EXCEPT !.stats = st, !.predict = pr] :
             st \in StatsCases, pr \in {"flat", "spike"}}

BacktestCalls ==
    [Symbols -> [op : {"backtest"}, env : ConcurrentEnvs, market_condition : {"normal"}]]

\* on entry the local market_condition is the parameter; nothing is returned yet
LocalsAtEntry(call) ==
    [failed |-> FALSE, market_condition |-> call.market_condition, result |-> NoResult]

\* the collaborators answer a call from that call's own data
CollaboratorsOf(calls, symbol) == calls[symbol].env

\* variant: the detected regime is kept in one place shared by all calls
CallRegimeShared(locals, symbol) == locals["AAA"].market_condition
\* the regime a call goes on with: its own local variable market_condition
CallRegime(locals, symbol) == locals[symbol].market_condition

InitConcurrent ==
    /\ model_type \in ValidModels
    /\ rebalance_frequency = "daily"
    /\ position_history = <<>>
    /\ args \in BacktestCalls
    /\ pc = [s \in Symbols |-> "call"]
    /\ last = [s \in Symbols |-> LocalsAtEntry(args[s])]

\* lines 966-1031: indicators, statistics and the regime, kept in the call's
\* local market_condition; an exception here goes to the outermost handler
BacktestDetectRegime(symbol) ==
    /\ pc[symbol] = "call"
    /\ pc' = [pc EXCEPT ![symbol] = "regime"]
    /\ last' = [last EXCEPT ![symbol] =
                  IF CollaboratorsOf(args, symbol).indicators = "raise"
                     \/ CollaboratorsOf(args, symbol).stats.kind = "raise"
                  THEN [@ EXCEPT !.failed = TRUE]
                  ELSE [@ EXCEPT !.market_condition =
                           RegimeUsed(@, CollaboratorsOf(args, symbol).stats)]]
    /\ UNCHANGED <<model_type, rebalance_frequency, position_history, args>>

\* lines 1049-1265: features, prediction, signals, simulation and the return
BacktestRunPipeline(symbol) ==
    /\ pc[symbol] = "regime"
    /\ pc' = [pc EXCEPT ![symbol] = "done"]
    /\ last' = [last EXCEPT ![symbol].result =
                  IF last[symbol].failed THEN OuterExcept(symbol, NoTrace)
                  ELSE WithRegime(Self, symbol, CollaboratorsOf(args, symbol),
                                  CallRegime(last, symbol))]
    /\ UNCHANGED <<model_type, rebalance_frequency, position_history, args>>

NextConcurrent ==
    \/ \E symbol \in Symbols : BacktestDetectRegime(symbol)
    \/ \E symbol \in Symbols : BacktestRunPipeline(symbol)

SpecConcurrent == InitConcurrent /\ [][NextConcurrent]_vars

(***************************************************************************)
(* The momentum veto (lines 564-942) as a function of what reaches it: the  *)
(* scaled and clipped signals, the predictions its momentum is taken from,  *)
(* the signal quality and the last volatility ratio                         *)
(***************************************************************************)
VetoLen == 4
VetoPredictions == [1..VetoLen -> {0, 1000}]
VetoSignals == [1..VetoLen -> {-100, 0, 100}]
VetoQualities == {Flat(q, VetoLen) : q \in {500, 680, 900}}
VetoVolRatios == {NaN, 900, 1150}

InitVeto ==
    /\ model_type = "MockStockPredictionFNN"
    /\ rebalance_frequency = "daily"
    /\ position_history = <<>>
    /\ pc = "call"
    /\ args \in [op : {"momentum_veto"}, market_condition : Labels,
                 predictions : VetoPredictions, clipped : VetoSignals,
                 signal_quality : VetoQualities, vol_ratio_value : VetoVolRatios]
    /\ last = NoResult

\* lines 564-942: the mask, signals_array[momentum_mask] = 0, fillna(0), return
MomentumVeto ==
    /\ pc = "call"
    /\ args.op = "momentum_veto"
    /\ last' = Returned(MomentumFilter(args.market_condition, args.clipped,
                   PriceMomentum(args.predictions), args.signal_quality,
                   IF args.vol_ratio_value = NaN THEN Scale ELSE args.vol_ratio_value))
    /\ pc' = "done"
    /\ UNCHANGED <<model_type, rebalance_frequency, position_history, args>>

NextVeto == MomentumVeto
SpecVeto == InitVeto /\ [][NextVeto]_vars

(***************************************************************************)
(* Properties                                                              *)
(***************************************************************************)
SignalsDone == pc = "done" /\ args.op = "generate_signals"
WeightsDone == pc = "done" /\ args.op = "weights"
BacktestDone == pc = "done" /\ args.op = "backtest"
PortfolioDone == pc = "done" /\ args.op = "backtest_portfolio"

\* C1: for every prediction array of length n, n = 0 and n = 1 included, and
\* every regime label, generate_signals returns a series of exactly n entries,
\* each within [-max_position_size, max_position_size].
C1_LengthAndRange ==
    SignalsDone =>
        /\ ~last.raised
        /\ Len(last.signals) = Len(args.predictions)
        /\ \A t \in 1..Len(last.signals) : Abs(last.signals[t]) <= max_position_size

\* some timestep of the input satisfies the long or the short condition
SomeEntry(p, mc) ==
    LET vol_ratio == VolRatio(p)
        T == Trends(p, mc)
    IN CountTrue(LongSignals(p, mc, vol_ratio, T)) > 0
       \/ CountTrue(ShortSignals(p, mc, vol_ratio, T)) > 0

\* C7: generate_signals never raises; when an error arises in the computation
\* (the position-sizing step of an input with a long or short timestep, the
\* volatility table of an empty input) it returns an all-zero series of the
\* input's length.
C7_ZeroSeriesOnError ==
    SignalsDone =>
        /\ ~last.raised
        /\ (Len(args.predictions) = 0 \/ SomeEntry(args.predictions, args.market_condition))
              => last.signals = Zeros(Len(args.predictions))

SumWeights(w) == SumOver(w, {i \in DOMAIN w : w[i] # NaN})

\* C4: for any return-series input with at least one asset, the weights of
\* _calculate_optimal_weights sum to at most max_portfolio_size and every
\* single weight is at most max_position_size.
C4_WeightLimits ==
    WeightsDone =>
        /\ SumWeights(last.weights) <= max_portfolio_size
        /\ \A i \in DOMAIN last.weights :
               last.weights[i] # NaN /\ last.weights[i] <= max_position_size

\* C5: for two assets whose return correlation is 0.95 (threshold 0.7) both
\* weights are strictly less than the weights the same assets receive when
\* uncorrelated.
C5_CorrelatedBelowBaseline ==
    (WeightsDone /\ Len(args.returns) = 2
     /\ Correlation(args.returns[1], args.returns[2]) \in 945..955)
        => \A i \in 1..2 : last.weights[i] < last.baseline[i]

IsEmptyResult(r, symbol) ==
    /\ r.symbol = symbol
    /\ r.results = EmptyTable
    /\ r.metrics = "empty"
    /\ r.predictions = <<>>
    /\ r.signals = EmptySeries

\* a stage of the pipeline that was entered (the trace of the calls made) and
\* failed, or an aligned index without a date
StageFailed(env, r) ==
    \/ env.indicators = "raise"
    \/ env.stats.kind = "raise"
    \/ Len(r.trace.features) >= 1 /\ env.features.kind = "raise"
    \/ Len(r.trace.features) = 2 /\ env.retry.kind = "raise"
    \/ Len(r.trace.predict) = 1 /\ env.predict = "raise"
    \/ Len(r.trace.signals) = 1 /\ r.trace.signals[1].raised
    \/ Len(r.trace.signals) = 1 /\ ~r.trace.signals[1].raised
       /\ env.length - prediction_window <= Max(5, base_lookback - 3)
    \/ r.trace.simulator = 1 /\ env.simulator = "raise"

\* C2: backtest never raises: a failure in any pipeline stage (indicators,
\* regime classification, feature preparation, the shorter-lookback retry,
\* prediction, signal generation, an empty aligned index, the simulator)
\* yields a result with the input symbol, an empty table, empty metrics,
\* empty predictions and empty signals, the condition having been logged.
C2_FailureIsData ==
    BacktestDone =>
        /\ ~last.raised
        /\ StageFailed(args.env, last) =>
              (IsEmptyResult(last, args.symbol) /\ last.logged_error)

\* C2 witness: the simulator, the last stage, was called and raised
C2_Witness ==
    /\ BacktestDone
    /\ args.env.simulator = "raise"
    /\ last.trace.simulator = 1
    /\ IsEmptyResult(last, args.symbol)

\* C8: when the feature preparer returns an empty matrix or None, backtest
\* returns a result with the input symbol, an empty table and empty metrics,
\* calls neither predict nor the simulator, and does not raise.
C8_NoFeaturesNoCalls ==
    (BacktestDone /\ args.env.indicators = "ok" /\ args.env.stats.kind = "ok"
     /\ (args.env.features.kind = "none"
         \/ (args.env.features.kind = "rows" /\ args.env.features.rows = 0)))
        => /\ ~last.raised
           /\ last.symbol = args.symbol
           /\ last.results = EmptyTable
           /\ last.metrics = "empty"
           /\ last.trace.predict = <<>>
           /\ last.trace.simulator = 0

\* C8 witness: an empty matrix, with a retry that would have had enough rows
C8_Witness ==
    /\ BacktestDone
    /\ args.env.features = Rows(0)
    /\ args.env.retry = Rows(31)
    /\ args.env.predict = "flat"
    /\ last.results = EmptyTable
    /\ Len(last.trace.features) = 1

\* C9: backtest uses the caller-supplied regime for feature preparation,
\* prediction and signal generation whenever the caller supplies one of
\* bullish/bearish/sideways, and classifies the regime from the price history
\* only when no override is supplied.
C9_RegimeOverride ==
    (BacktestDone /\ args.env.indicators = "ok" /\ args.env.stats.kind = "ok") =>
        LET s == args.env.stats
            expected == IF args.market_condition \in Regimes THEN args.market_condition
                        ELSE DetectRegime(s.trend, s.volatility, s.momentum, s.rsi_avg)
        IN /\ \A k \in 1..Len(last.trace.features) :
                  last.trace.features[k].regime = expected
           /\ \A k \in 1..Len(last.trace.predict) :
                  last.trace.predict[k] \in {expected, "not passed"}
           /\ \A k \in 1..Len(last.trace.signals) :
                  last.trace.signals[k].regime = expected

\* C10: in every non-empty result the aligned signal series has one entry per
\* date of the aligned index passed to the simulator, its first entry is 0,
\* and every later entry at position k is the k-th generated signal (0 where
\* padded), whether or not truncation or padding took place.
C10_AlignedSignals ==
    (BacktestDone /\ last.metrics = "computed") =>
        /\ Len(last.signals.values) = Len(last.simulated_index)
        /\ last.signals.values[1] = 0
        /\ \A k \in 2..Len(last.signals.values) :
               last.signals.values[k] =
                   (IF k <= Len(last.generated) THEN last.generated[k] ELSE 0)

\* signal generation raised inside backtest and the result is the empty one
SignalFailureAbsorbed ==
    /\ BacktestDone
    /\ Len(last.trace.signals) = 1
    /\ last.trace.signals[1].raised
    /\ IsEmptyResult(last, args.symbol)

\* the aligned index had no date and the result is the empty one
EmptyIndexAbsorbed ==
    /\ BacktestDone
    /\ Len(last.trace.signals) = 1
    /\ ~last.trace.signals[1].raised
    /\ last.trace.simulator = 0
    /\ IsEmptyResult(last, args.symbol)

\* the individual backtests of the portfolio call that has just returned
RunsOfCall == PortfolioRuns(Self, args.symbols, args.test_data_dict)

HasDate(table, date) == \E r \in 1..Len(table.index) : table.index[r] = date

\* C3: in backtest_portfolio a symbol whose individual backtest fails, and so
\* yields an empty result table, does not affect the other symbols: the run
\* completes and returns the remaining symbols' results, the portfolio
\* metrics and the equity curve instead of raising.
C3_FailedSymbolIsolated ==
    (/\ PortfolioDone
     /\ \E k \in 1..Len(RunsOfCall) : RunsOfCall[k].results = EmptyTable
     /\ \E k \in 1..Len(RunsOfCall) : RunsOfCall[k].results # EmptyTable)
        => /\ ~last.raised
           /\ ~last.empty
           /\ Len(last.portfolio_equity) > 0
           /\ last.portfolio_metrics = "computed"
           /\ \A k \in 1..Len(RunsOfCall) :
                  RunsOfCall[k].results # EmptyTable =>
                      \E j \in 1..Len(last.asset_results) :
                          last.asset_results[j] =
                              [symbol |-> RunsOfCall[k].symbol,
                               table |-> RunsOfCall[k].results]

\* C6: in the rebalancing loop, on a rebalance date where an asset's data is
\* missing the asset is left out of that period's return, and the loop runs
\* through the last rebalance date without raising: the equity curve has one
\* entry per rebalance date and a snapshot is stored for the last date.
C6_MissingDataExcluded ==
    (/\ PortfolioDone
     /\ Len(RunsOfCall) > 0
     /\ \A k \in 1..Len(RunsOfCall) :
            ~RunsOfCall[k].raised /\ RunsOfCall[k].results # EmptyTable
     /\ LET tables == ResultTables(RunsOfCall)
            dates == PortfolioDates(rebalance_frequency, tables)
        IN \E i \in 2..Len(dates), k \in 1..Len(tables) :
               ~HasDate(tables[k].table, dates[i]))
        => LET dates == PortfolioDates(rebalance_frequency, ResultTables(RunsOfCall))
           IN /\ ~last.raised
              /\ Len(last.portfolio_equity) = Len(dates)
              /\ Len(last.positions) > 0
              /\ last.positions[Len(last.positions)].date = dates[Len(dates)]

\* a rebalance date on which one asset has data and another has none
PartialDate ==
    /\ PortfolioDone
    /\ Len(RunsOfCall) = 2
    /\ \A k \in 1..2 : RunsOfCall[k].results # EmptyTable
    /\ LET tables == ResultTables(RunsOfCall)
           dates == PortfolioDates(rebalance_frequency, tables)
       IN \E i \in 2..Len(dates) :
              /\ HasDate(tables[1].table, dates[i])
              /\ ~HasDate(tables[2].table, dates[i])

\* the loop ran through its last date and stored a snapshot for each date
LoopCompleted ==
    /\ PortfolioDone
    /\ ~last.raised
    /\ ~last.empty
    /\ Len(last.positions) > 0

\* C11: for a constant 0.5 prediction series of any length n >= 1 and any
\* regime label, generate_signals returns a series of n zeros.
C11_FlatGivesZeros ==
    (SignalsDone /\ args.predictions \in FlatInputs) =>
        /\ ~last.raised
        /\ Len(last.signals) = Len(args.predictions)
        /\ \A t \in 1..Len(last.signals) : last.signals[t] = 0

\* a constant 0.5 series longer than the longest trend window was answered
C11_Witness ==
    /\ SignalsDone
    /\ args.predictions = Flat(500, FlatLen)
    /\ args.market_condition = "bearish"
    /\ ~last.raised
    /\ last.signals = Flat(0, FlatLen)

\* signal_quality (lines 347-435) of an input, as generate_signals computes it
QualityFrom(p, mc, vol_ratio, T) ==
    SignalQuality(p, mc, vol_ratio, T, LongSignals(p, mc, vol_ratio, T),
                  ShortSignals(p, mc, vol_ratio, T))
QualityOf(p, mc) == QualityFrom(p, mc, VolRatio(p), Trends(p, mc))

\* C12: in the bullish regime a 30-step series of value 0.9 (constant, or
\* climbing to 0.9) gives a series whose trailing timestep carries a strictly
\* positive signal, with signal quality above the bullish quality threshold.
C12_SustainedLong ==
    (SignalsDone /\ args.predictions \in ScenarioInputs
                 /\ args.market_condition = "bullish") =>
        /\ ~last.raised
        /\ Len(last.signals) = ScenarioLen
        /\ last.signals[ScenarioLen] > 0
        /\ QualityOf(args.predictions, "bullish")[ScenarioLen]
               > regime_params["bullish"].quality_threshold

\* the constant series is answered with zeros
FlatHighAnsweredWithZeros ==
    /\ SignalsDone /\ args.market_condition = "bullish"
    /\ args.predictions = Flat(900, ScenarioLen)
    /\ last.signals = Flat(0, ScenarioLen)
\* the climbing series has long entries and is answered with an error
ClimbAnsweredWithError ==
    /\ SignalsDone /\ args.market_condition = "bullish"
    /\ args.predictions = Climb
    /\ last.raised

C14_PortfolioStateless ==
    PortfolioDone =>
        last = backtest_portfolio(Self, <<>>, args.symbols, args.test_data_dict).result

\* a second call with the arguments of the first reports the snapshots of both
SecondCallReportsBoth ==
    /\ PortfolioDone
    /\ ~last.raised /\ ~last.empty
    /\ Len(last.dates) > 1
    /\ Len(last.positions) = 2 * (Len(last.dates) - 1)
    /\ \A k \in 1..(Len(last.dates) - 1) :
          last.positions[k] = last.positions[k + Len(last.dates) - 1]

IsPrefix(a, b) == Len(a) <= Len(b) /\ SubSeq(b, 1, Len(a)) = a
SnapshotDates(snapshots) == [k \in 1..Len(snapshots) |-> snapshots[k].date]

\* C15: position_history is append-only with one snapshot per rebalance date:
\* no step of any operation changes or removes a snapshot already appended,
\* and a backtest_portfolio call appends one snapshot for each of its
\* rebalance dates, in date order.
C15_AppendOnlyOnePerDate ==
    [][/\ IsPrefix(position_history, position_history')
       /\ (pc = "idle" /\ pc' = "done" /\ args'.op = "backtest_portfolio") =>
             SnapshotDates(SubSeq(position_history', Len(position_history) + 1,
                                  Len(position_history')))
               = rebalance_dates(Self, args'.symbols, args'.test_data_dict)]_vars

\* no step changes or removes a snapshot already appended
AppendOnly == [][IsPrefix(position_history, position_history')]_vars

\* a completed call has left no snapshot for the first of its rebalance dates
FirstDateWithoutSnapshot ==
    /\ PortfolioDone /\ ~last.raised /\ ~last.empty
    /\ Len(last.dates) > 1
    /\ \A k \in 1..Len(position_history) : position_history[k].date # last.dates[1]

RegimeDone == pc = "done" /\ args.op = "detect_regime"

\* C16: regime classification is total: whatever the four statistics are
\* (NaN and infinities included) and whatever label the caller passed, the
\* rule chain ends with the regime set to one of bullish, bearish, sideways.
C16_RegimeTotal ==
    RegimeDone => last.market_condition \in Regimes

\* statistics that match none of the three explicit rules (every one of them
\* NaN) were classified, the caller having passed the default label
C16_Witness ==
    /\ RegimeDone
    /\ args.market_condition = "normal"
    /\ args.stats = Stats(NaN, NaN, NaN, NaN)
    /\ last.market_condition = "sideways"

MetricsDone == pc = "done" /\ args.op = "metrics"

IsNumber(x) == x # NaN /\ x # PosInf /\ x # NegInf

\* C17: calculate_portfolio_metrics never raises, and every metric it
\* returns is a finite number, 0 standing in for each division by zero:
\* cagr_to_drawdown is 0 when max_drawdown is 0, sharpe_ratio is 0 when the
\* returns do not vary, avg_correlation is 0 with fewer than two assets.
C17_MetricsNeverFail ==
    MetricsDone =>
        /\ ~last.raised
        /\ ~last.empty =>
              /\ IsNumber(last.cagr) /\ IsNumber(last.max_drawdown)
              /\ IsNumber(last.avg_drawdown) /\ IsNumber(last.cagr_to_drawdown)
              /\ IsNumber(last.volatility) /\ IsNumber(last.sharpe_ratio)
              /\ IsNumber(last.avg_correlation)
              /\ last.max_drawdown = 0 => last.cagr_to_drawdown = 0
              /\ last.volatility = 0 => last.sharpe_ratio = 0
              /\ Len(NonEmptyColumns(args.results_dict)) < 2 => last.avg_correlation = 0

\* the three guarded divisions do give 0
GuardedDivisionsGiveZero ==
    (MetricsDone /\ ~last.raised /\ ~last.empty) =>
        /\ last.max_drawdown \in {0, NaN} => last.cagr_to_drawdown = 0
        /\ last.volatility \in {0, NaN} => last.sharpe_ratio = 0
        /\ Len(NonEmptyColumns(args.results_dict)) < 2 => last.avg_correlation = 0

\* an asset with constant returns next to another one: avg_correlation is NaN
ConstantAssetGivesNaN ==
    /\ MetricsDone /\ ~last.raised /\ ~last.empty
    /\ args.results_dict = << <<5, 5, 5, 5>>, <<10, -10, 20, 0>> >>
    /\ last.avg_correlation = NaN
\* a cumulative return below 0 over five periods: the call raises
NegativeCumulativeRaises ==
    /\ MetricsDone
    /\ args.results_dict = <<Flat(-1500, 5)>>
    /\ last.raised
\* a cumulative return of 0 from the first period on: max_drawdown is NaN
ZeroCumulativeGivesNaN ==
    /\ MetricsDone /\ ~last.raised /\ ~last.empty
    /\ args.results_dict = <<Flat(-1250, 2)>>
    /\ last.max_drawdown = NaN
\* a single period: volatility is NaN
SinglePeriodGivesNaN ==
    /\ MetricsDone /\ ~last.raised /\ ~last.empty
    /\ args.results_dict = <<Flat(5, 1)>>
    /\ last.volatility = NaN

\* (1 + r) ** 252 - 1 for a per-period return r
AnnualGrowth(r) == Pow(Scale + r, TradingDays) - Scale
\* what rounding in units of 1/Scale can account for
WithinTolerance(x, y) == Abs(x - y) <= Abs(y) \div 10 + 10
\* the single constant return of a one-asset frame
ConstantOf(results_dict) == results_dict[1][1]
ModerateConstantCall ==
    /\ MetricsDone
    /\ args.results_dict \in ConstantFrames
    /\ ConstantOf(args.results_dict) > -Scale

\* C18: for an asset whose return is a constant r > -1 in each of n periods
\* the metrics report cagr = (1 + r) ** 252 - 1, up to rounding, and
\* max_drawdown = 0.
C18_ConstantReturnRoundTrip ==
    ModerateConstantCall =>
        /\ ~last.raised /\ ~last.empty
        /\ WithinTolerance(last.cagr, AnnualGrowth(ConstantOf(args.results_dict)))
        /\ last.max_drawdown = 0

\* what the code reports instead for two periods or more (the exponent being
\* whole): the growth of max_portfolio_size times r
CagrOfWeightedReturn ==
    (ModerateConstantCall /\ Len(args.results_dict[1]) >= 2
                          /\ WholeExponent(Len(args.results_dict[1]))) =>
        /\ last.portfolio_weights = <<max_portfolio_size>>
        /\ WithinTolerance(last.cagr,
               AnnualGrowth(Mul(max_portfolio_size, ConstantOf(args.results_dict))))
\* a constant negative return has a drawdown
NegativeConstantHasDrawdown ==
    /\ ModerateConstantCall
    /\ args.results_dict = <<Flat(-10, 4)>>
    /\ last.max_drawdown < 0

\* C19: hard failures are raised at construction only: a backtester exists
\* only for a recognised model class and a known rebalance frequency, and no
\* backtest call on a constructed backtester raises.
C19_FailuresAtConstructionOnly ==
    /\ pc \in {"constructed", "idle", "done"} =>
          /\ model_type \in ValidModels
          /\ rebalance_frequency \in KnownFrequencies
    /\ PortfolioDone => ~last.raised

\* an unrecognised model class is refused by the constructor
UnknownModelRefused ==
    (pc \in {"constructed", "failed"}) =>
        (pc = "failed" <=> args.model \notin ValidModels)
\* a backtester was constructed with an unknown rebalance frequency
UnknownFrequencyAccepted ==
    pc = "constructed" /\ rebalance_frequency = "hourly"
\* a portfolio backtest on a constructed backtester raised
BacktestRaisedAfterConstruction ==
    PortfolioDone /\ last.raised /\ rebalance_frequency \in KnownFrequencies

\* the result a symbol's call would give when run alone, start to end
RunAlone(symbol) ==
    backtest(Self, symbol, args[symbol].env, args[symbol].market_condition)

FieldsUntouched == UNCHANGED <<model_type, rebalance_frequency, position_history>>

TrendSeen == CleanStat(args.stats.trend, 0, -1000, 1000)
VolatilitySeen == CleanStat(args.stats.volatility, 2000, 500, 5000)
MomentumSeen == CleanStat(args.stats.momentum, 0, -500, 500)
RsiSeen == CleanStat(args.stats.rsi_avg, 5000, 0, 10000)
\* trend_quality and momentum_quality in units of 1/10000
TrendQualitySeen ==
    (4 * (10000 - 10 * Abs(TrendSeen)) + 3 * (10000 - 2 * VolatilitySeen)
     + 3 * (10000 - 20 * Abs(MomentumSeen))) \div 10
MomentumQualitySeen == 2 * (5000 - Abs(RsiSeen - 5000))

BullishRule ==
    /\ TrendSeen > 20 /\ VolatilitySeen < 2500 /\ MomentumSeen > 3
    /\ 4500 < RsiSeen /\ RsiSeen < 6500
    /\ TrendQualitySeen > 5000 /\ MomentumQualitySeen > 4000
BearishRule ==
    /\ TrendSeen < -20 /\ VolatilitySeen > 1500
    /\ (MomentumSeen < -3 \/ RsiSeen < 4000 \/ TrendQualitySeen < 6000)
SidewaysRule == Abs(TrendSeen) < 20 /\ VolatilitySeen < 2000
BearishScore ==
    Cardinality({k \in 1..4 : \/ k = 1 /\ TrendSeen < 0
                              \/ k = 2 /\ VolatilitySeen > 1800
                              \/ k = 3 /\ MomentumSeen < 0
                              \/ k = 4 /\ RsiSeen < 4500})

\* C21: the regime rules are tried in order and the first match wins: bullish
\* exactly when the bullish rule holds; otherwise bearish when the bearish
\* rule holds; otherwise sideways when the sideways rule holds; otherwise
\* bearish when at least 3 of the 4 scored conditions hold, else sideways.
\* The fallback scoring never gives bullish.
C21_FirstMatchWins ==
    RegimeDone =>
        /\ last.market_condition = "bullish" <=> BullishRule
        /\ ~BullishRule /\ BearishRule => last.market_condition = "bearish"
        /\ ~BullishRule /\ ~BearishRule /\ SidewaysRule
             => last.market_condition = "sideways"
        /\ ~BullishRule /\ ~BearishRule /\ ~SidewaysRule
             => last.market_condition = (IF BearishScore >= 3 THEN "bearish" ELSE "sideways")

\* a history that matches none of the three rules was scored bearish
C21_Witness ==
    /\ RegimeDone
    /\ ~BullishRule /\ ~BearishRule /\ ~SidewaysRule
    /\ BearishScore = 3
    /\ last.market_condition = "bearish"

\* the same with no scored condition holding: sideways, not bullish
FallbackWithoutBearishSign ==
    /\ RegimeDone
    /\ ~BullishRule /\ ~BearishRule /\ ~SidewaysRule
    /\ BearishScore = 0
    /\ last.market_condition = "sideways"

NonFinite(x) == x = NaN \/ x = PosInf \/ x = NegInf
AllNonFinite ==
    /\ NonFinite(args.stats.trend) /\ NonFinite(args.stats.volatility)
    /\ NonFinite(args.stats.momentum) /\ NonFinite(args.stats.rsi_avg)

\* C22: every non-finite statistic (NaN, +infinity, -infinity) is replaced by
\* its neutral default (trend 0, volatility 0.2, momentum 0, rsi_avg 50) before
\* the rules compare it, and a history whose four statistics are all
\* non-finite is classified sideways.
C22_NonFiniteBecomesNeutral ==
    RegimeDone =>
        /\ NonFinite(args.stats.trend) => TrendSeen = 0
        /\ NonFinite(args.stats.volatility) => VolatilitySeen = 2000
        /\ NonFinite(args.stats.momentum) => MomentumSeen = 0
        /\ NonFinite(args.stats.rsi_avg) => RsiSeen = 5000
        /\ AllNonFinite => last.market_condition = "sideways"

\* what holds of NaN alone: it becomes the neutral default, and four NaN
\* statistics give sideways
NaNBecomesNeutral ==
    RegimeDone =>
        /\ args.stats.trend = NaN => TrendSeen = 0
        /\ args.stats.volatility = NaN => VolatilitySeen = 2000
        /\ args.stats.momentum = NaN => MomentumSeen = 0
        /\ args.stats.rsi_avg = NaN => RsiSeen = 5000
        /\ args.stats = Stats(NaN, NaN, NaN, NaN) => last.market_condition = "sideways"

\* no statistic the rules compare is NaN or infinite
NoNonFiniteCompared ==
    RegimeDone => ~NonFinite(TrendSeen) /\ ~NonFinite(VolatilitySeen)
                  /\ ~NonFinite(MomentumSeen) /\ ~NonFinite(RsiSeen)

\* an infinite trend is compared as the clipping bound, and a history with
\* trend, momentum and rsi_avg at -infinity and volatility NaN is bearish
InfiniteHistoryBearish ==
    /\ RegimeDone
    /\ args.stats = Stats(NegInf, NaN, NegInf, NegInf)
    /\ TrendSeen = -1000
    /\ last.market_condition = "bearish"

\* a finished backtest whose first feature matrix had rows, but fewer than
\* max(30, len(test_data) // 5)
FirstMatrixShort ==
    /\ BacktestDone
    /\ args.env.indicators = "ok" /\ args.env.stats.kind = "ok"
    /\ args.env.features.kind = "rows"
    /\ 0 < args.env.features.rows
    /\ args.env.features.rows < Max(30, args.env.length \div 5)
RetryMeetsMinimum ==
    /\ args.env.retry.kind = "rows"
    /\ args.env.retry.rows >= Max(30, args.env.length \div 5)
FirstMeetsRelaxed ==
    args.env.features.rows
        >= RelaxedMinimum(last.trace.features[1].regime, args.env.length)
\* the matrix predict was given had `rows' rows and alignment started from
\* `lookback' (when the call went on to a simulated result)
WentOnWith(rows, lookback) ==
    /\ Len(last.trace.predict) = 1
    /\ last.metrics = "computed" =>
          /\ Len(last.predictions) = rows
          /\ last.start_row \in {lookback, lookback + sequence_length - 1}
RetriedOnceShorter ==
    /\ Len(last.trace.features) = 2
    /\ last.trace.features[2].lookback = 7
    /\ last.trace.features[2].lookback < last.trace.features[1].lookback

GaveUpAfterRelaxedMinimum ==
    /\ FirstMatrixShort
    /\ args.env.retry.kind = "none"
    /\ ~FirstMeetsRelaxed
    /\ last.trace.predict = <<>>
    /\ IsEmptyResult(last, args.symbol)

\* the lookback the call went on with: the shorter one if the retry was adopted
LookbackInUse ==
    IF Len(last.trace.features) = 2 /\ RetryMeetsMinimum THEN 7 ELSE base_lookback
Simulated == BacktestDone /\ last.metrics = "computed"

\* C24: the aligned index of a backtester with a sequential model (RNN/LSTM)
\* always starts at price row lookback + sequence_length - 1, that of a
\* backtester with a non-sequential model always at row lookback, however
\* many signals were generated.
C24_AlignmentStart ==
    Simulated =>
        last.start_row = (IF model_type \in SequentialModels
                          THEN LookbackInUse + sequence_length - 1
                          ELSE LookbackInUse)

\* what holds of the non-sequential models
NonSequentialStartsAtLookback ==
    (Simulated /\ model_type \notin SequentialModels) => last.start_row = LookbackInUse

\* with a sequential model the offset is applied exactly when the number of
\* signals differs from the number of dates from row lookback on
SequentialOffsetOnMismatchOnly ==
    (Simulated /\ model_type \in SequentialModels) =>
        last.start_row =
            (IF Len(last.generated) # args.env.length - prediction_window - LookbackInUse
             THEN LookbackInUse + sequence_length - 1 ELSE LookbackInUse)

\* a sequential model, as many signals as dates: the index starts at row 10
SequentialStartsAtLookback ==
    /\ Simulated
    /\ model_type \in SequentialModels
    /\ Len(last.generated) = 31 /\ args.env.length = 46
    /\ last.start_row = base_lookback

\* the timesteps of the call's input that satisfy the long (short) condition
LongSteps ==
    LET p == args.predictions
        long == LongSignals(p, args.market_condition, VolRatio(p),
                            Trends(p, args.market_condition))
    IN {t \in DOMAIN p : long[t]}
ShortSteps ==
    LET p == args.predictions
        short == ShortSignals(p, args.market_condition, VolRatio(p),
                              Trends(p, args.market_condition))
    IN {t \in DOMAIN p : short[t]}

\* C25: at every timestep that satisfies the long condition the sizing step
\* sets the signal to confidence x position_scale x max_position x
\* (1 - 0.2 x vol_ratio), each factor taken at that timestep, the negative of
\* it at every short timestep, and leaves the others 0; no timestep is both.
\* The sizing step therefore completes whenever a timestep is long or short.
C25_SizedAtEachEntry ==
    SignalsDone =>
        /\ LongSteps \cap ShortSteps = {}
        /\ (LongSteps \cup ShortSteps) # {} => ~last.raised

\* what holds: no timestep is both long and short, and sizing raises
\* whenever some timestep is either
NoStepBothWays == SignalsDone => LongSteps \cap ShortSteps = {}
SizingRaisesOnEntry ==
    (SignalsDone /\ (LongSteps \cup ShortSteps) # {}) => last.raised

\* four long timesteps among thirty: position_scale has thirty entries, the
\* confidence four, and the call raised
FourLongOfThirtyRaised ==
    /\ SignalsDone
    /\ args.predictions = Climb /\ args.market_condition = "bullish"
    /\ Cardinality(LongSteps) = 4
    /\ last.raised

VetoDone == pc = "done" /\ args.op = "momentum_veto"
VetoMomentum == PriceMomentum(args.predictions)
VetoVolRatio == IF args.vol_ratio_value = NaN THEN Scale ELSE args.vol_ratio_value

\* the veto conditions at timestep t: negligible momentum, a signal against a
\* confirmed opposite trend, signal quality below the regime's threshold,
\* momentum persistence below the regime's threshold, a volatility ratio
\* above the regime's bound with quality under 0.8
Vetoed(t) ==
    LET th == VetoThresholds(args.market_condition)
        m == VetoMomentum[t]
        confirmed == MomentumQuality(VetoMomentum)[t] > th.mom_threshold
    IN \/ Abs(m) < 1
       \/ args.clipped[t] > 0 /\ m < -2 /\ confirmed
       \/ args.clipped[t] < 0 /\ m > 2 /\ confirmed
       \/ args.signal_quality[t] < th.quality_threshold
       \/ MomentumPersistence(VetoMomentum)[t] < th.persistence_threshold
       \/ VetoVolRatio > th.vol_threshold /\ args.signal_quality[t] < 800

\* C26: the momentum veto is the last transformation of the signal values:
\* every nonzero entry of the returned series satisfies none of the veto
\* conditions and is the value that entered the veto, and every entry the
\* veto zeroed (or that was zero already) is zero in the returned series.
C26_VetoRunsLast ==
    VetoDone =>
        /\ ~last.raised
        /\ Len(last.signals) = Len(args.clipped)
        /\ \A t \in DOMAIN args.clipped :
              /\ last.signals[t] # 0 => (~Vetoed(t) /\ last.signals[t] = args.clipped[t])
              /\ (Vetoed(t) \/ args.clipped[t] = 0) => last.signals[t] = 0

\* one entry came through the veto and another, nonzero before, was zeroed
C26_Witness ==
    /\ VetoDone
    /\ \E t \in DOMAIN args.clipped : last.signals[t] # 0
    /\ \E t \in DOMAIN args.clipped : args.clipped[t] # 0 /\ last.signals[t] = 0

\* correlation above the threshold, NaN and infinities excluded
AboveThreshold(c) == Finite(c) /\ c > correlation_threshold

\* w scaled by clip(1 - (corr - threshold), 0, 1) for every asset from j on,
\* other than i, whose correlation with i is above the threshold
RECURSIVE ScaledByPartners(_, _, _, _)
ScaledByPartners(w, i, j, corr) ==
    IF j > Len(corr) THEN w
    ELSE ScaledByPartners(
             IF j # i /\ AboveThreshold(corr[i][j])
             THEN Mul(w, Clip(Scale - (corr[i][j] - correlation_threshold), 0, Scale))
             ELSE w,
             i, j + 1, corr)

Partners(i, corr) == {j \in DOMAIN corr : j # i /\ AboveThreshold(corr[i][j])}

\* C27: the correlation adjustment is cumulative over pairs: after the
\* pairwise loop each asset's weight is its normalized inverse-volatility
\* weight times the product, over every other asset whose correlation with it
\* exceeds correlation_threshold, of clip(1 - (corr - threshold), 0, 1); an
\* asset without such a partner (correlations at or below the threshold, or
\* not finite) keeps its weight.
C27_CumulativeAdjustment ==
    WeightsDone =>
        \A i \in DOMAIN args.returns :
            /\ last.after_loop[i] =
                   ScaledByPartners(InverseVolatilityWeights(args.returns)[i], i, 1,
                                    CorrelationMatrix(args.returns))
            /\ Partners(i, CorrelationMatrix(args.returns)) = {}
                 => last.after_loop[i] = InverseVolatilityWeights(args.returns)[i]

\* three assets, the first correlated above the threshold with both others
\* and scaled down, the loop having gone over all three pairs
C27_Witness ==
    /\ WeightsDone
    /\ Len(args.returns) = 3
    /\ Partners(1, CorrelationMatrix(args.returns)) = {2, 3}
    /\ last.after_loop[1] < InverseVolatilityWeights(args.returns)[1]
    /\ last.after_loop[1] > 0

\* a pair with a NaN correlation next to a pair above the threshold
NaNPairLeftAlone ==
    /\ WeightsDone
    /\ Len(args.returns) = 3
    /\ CorrelationMatrix(args.returns)[1][3] = NaN
    /\ Partners(1, CorrelationMatrix(args.returns)) = {2}
    /\ last.after_loop[3] = InverseVolatilityWeights(args.returns)[3]

\* the rebalance dates of the portfolio call that has just returned
DatesOfCall == PortfolioDates(rebalance_frequency, ResultTables(RunsOfCall))
\* the call got as far as the rebalancing loop
ReachedLoop ==
    /\ PortfolioDone
    /\ Len(RunsOfCall) > 0
    /\ \A k \in 1..Len(RunsOfCall) :
           ~RunsOfCall[k].raised /\ RunsOfCall[k].results # EmptyTable
    /\ Len(DatesOfCall) > 0
ReturnAt(table, date) ==
    table.returns[CHOOSE r \in 1..Len(table.index) : table.index[r] = date]
\* the snapshot this call stored for its i-th rebalance date
SnapshotAt(i) == last.positions[Len(last.positions) - Len(DatesOfCall) + i]
\* sum over the assets with data at the i-th date of position x return
GainAt(i) ==
    LET tables == ResultTables(RunsOfCall)
        with_data == {k \in 1..Len(tables) : HasDate(tables[k].table, DatesOfCall[i])}
    IN SumOver([k \in with_data |->
                   (SnapshotAt(i).positions[tables[k].symbol]
                    * ReturnAt(tables[k].table, DatesOfCall[i])) \div Scale],
               with_data)

\* C28: the equity at the first rebalance date is initial_capital; at every
\* later date i it is equity[i-1] x (1 + gain / equity[i-1]), the gain being
\* the sum over the assets with data at date i of position x return;
\* final_equity is the last equity and total_return is last / first - 1.
C28_EquityCompounds ==
    ReachedLoop =>
        /\ ~last.raised
        /\ Len(last.portfolio_equity) = Len(DatesOfCall)
        /\ last.portfolio_equity[1] = initial_capital
        /\ \A i \in 2..Len(DatesOfCall) :
               last.portfolio_equity[i] = last.portfolio_equity[i - 1] + GainAt(i)
        /\ last.final_equity = last.portfolio_equity[Len(DatesOfCall)]
        /\ last.total_return =
               (last.final_equity * Scale) \div last.portfolio_equity[1] - Scale

\* what holds: a call that returns had no asset with data on any later
\* rebalance date, and its equity is initial_capital throughout
EquityFlatWhenReturned ==
    (PortfolioDone /\ ~last.raised /\ ~last.empty) =>
        /\ \A i \in 2..Len(last.dates), k \in 1..Len(last.asset_results) :
               ~HasDate(last.asset_results[k].table, last.dates[i])
        /\ \A i \in 1..Len(last.dates) : last.portfolio_equity[i] = initial_capital
        /\ last.final_equity = initial_capital /\ last.total_return = 0

\* an asset had data on the second rebalance date and the call raised there
RaisedAtFirstDataDate ==
    /\ ReachedLoop
    /\ Len(DatesOfCall) >= 2
    /\ \E k \in 1..Len(RunsOfCall) : HasDate(RunsOfCall[k].results, DatesOfCall[2])
    /\ last.raised /\ last.error = "ValueError"

\* the dollar positions of a snapshot, summed over the symbols
PositionsTotal(snapshot) == SumOver(snapshot.positions, DOMAIN snapshot.positions)

\* a portfolio call that went through its rebalancing loop and returned
LoopReturned == PortfolioDone /\ ~last.raised /\ ~last.empty
\* the snapshot the call stored for its i-th rebalance date
StoredAt(i) == last.positions[Len(last.positions) - Len(last.dates) + i]

SnapshotsHoldNoPosition ==
    \A k \in DOMAIN position_history :
        \A sym \in DOMAIN position_history[k].positions :
            position_history[k].positions[sym] = 0

\* the scalar vol_scale of lines 486-556 that the call's input gives under a
\* regime label: the table read at the last volatility ratio and the mean
\* signal quality
VolScaleUnder(mc) ==
    LET p == args.predictions
        quality == QualityOf(p, mc)
    IN VolScaleTable(mc, VolRatio(p)[Len(p)], SumOver(quality, DOMAIN p) \div Len(p))
Unrecognized == SignalsDone /\ args.market_condition \notin Regimes

\* C30: generate_signals treats a label other than bullish and bearish (its
\* default 'normal' included) as sideways at every regime-dependent step (the
\* parameter lookup, position_scale, the volatility/quality table, the veto
\* thresholds), and so returns for it what it returns for 'sideways'.
C30_UnrecognizedIsSideways ==
    Unrecognized =>
        /\ last = generate_signals(args.predictions, "sideways")
        /\ ParamsFor(args.market_condition) = ParamsFor("sideways")
        /\ PositionScale(args.predictions, args.market_condition, VolRatio(args.predictions))
             = PositionScale(args.predictions, "sideways", VolRatio(args.predictions))
        /\ VetoThresholds(args.market_condition) = VetoThresholds("sideways")
        /\ Len(args.predictions) > 0 => VolScaleUnder(args.market_condition) = VolScaleUnder("sideways")

\* what holds: the returned series (or the error) is that of 'sideways', as
\* are the parameters, position_scale and the veto thresholds
SameOutputAsSideways ==
    Unrecognized =>
        /\ last = generate_signals(args.predictions, "sideways")
        /\ ParamsFor(args.market_condition) = ParamsFor("sideways")
        /\ PositionScale(args.predictions, args.market_condition, VolRatio(args.predictions))
             = PositionScale(args.predictions, "sideways", VolRatio(args.predictions))
        /\ VetoThresholds(args.market_condition) = VetoThresholds("sideways")

\* the default label on a one-step input: vol_scale is larger than under
\* 'sideways', the returned series being the same
DefaultLabelScalesMore ==
    /\ Unrecognized
    /\ args.market_condition = "normal"
    /\ Len(args.predictions) = 1
    /\ VolScaleUnder("normal") > VolScaleUnder("sideways")
    /\ last = generate_signals(args.predictions, "sideways")

====
